---- MODULE Spec2Model ----
(***************************************************************************)
(* Model of the cryptopen verification harness: the SHA-1 / SHA-256 /      *)
(* SHA-512 software models (tb/model/sha1.py, tb/sha256/model/sha256.py,   *)
(* tb/sha2/model/sha512.py), the register address map and Driver           *)
(* (tb/driver.py, tb/interface/utils.py), the bus master                   *)
(* (tb/interface/bus/master.py) and the register interface the tests       *)
(* drive (tb/interface/test_simple_interface.py, tb/interface/test_regs.py)*)
(***************************************************************************)
EXTENDS Integers, Sequences, FiniteSets, TLC

(***************************************************************************)
(* Python integers.  A non-negative Python int is a sequence of 16-bit     *)
(* limbs, least significant limb first; its value is the sum of            *)
(* x[i] * 65536^(i-1).  High zero limbs are allowed, so values kept in the *)
(* state are always masked to their word width.                            *)
(***************************************************************************)
Base == 2^16

Max(a, b) == IF a >= b THEN a ELSE b

Min(a, b) == IF a <= b THEN a ELSE b

Limb(x, i) == IF 1 <= i /\ i <= Len(x) THEN x[i] ELSE 0

FromNat(n) == << n % Base, n \div Base >>

W32(hi, lo) == << lo, hi >>

W64(a, b, c, d) == << d, c, b, a >>

BitOf(a, k) == (a \div (2^k)) % 2

And8(a, b) ==
  (BitOf(a, 0) * BitOf(b, 0)) + (2 * BitOf(a, 1) * BitOf(b, 1))
  + (4 * BitOf(a, 2) * BitOf(b, 2)) + (8 * BitOf(a, 3) * BitOf(b, 3))
  + (16 * BitOf(a, 4) * BitOf(b, 4)) + (32 * BitOf(a, 5) * BitOf(b, 5))
  + (64 * BitOf(a, 6) * BitOf(b, 6)) + (128 * BitOf(a, 7) * BitOf(b, 7))

\* a & b for all pairs of bytes, entry a * 256 + b + 1
AndTable == [k \in 1..(256 * 256) |-> And8((k - 1) \div 256, (k - 1) % 256)] \o << >>

And16(a, b) ==
  AndTable[((a % 256) * 256) + (b % 256) + 1]
  + (256 * AndTable[((a \div 256) * 256) + (b \div 256) + 1])

\* x & y
And(x, y) == [i \in 1..Max(Len(x), Len(y)) |-> And16(Limb(x, i), Limb(y, i))] \o << >>

\* x ^ y
Xor(x, y) ==
  [i \in 1..Max(Len(x), Len(y)) |->
     (Limb(x, i) + Limb(y, i)) - (2 * And16(Limb(x, i), Limb(y, i)))] \o << >>

\* x | y
Or(x, y) ==
  [i \in 1..Max(Len(x), Len(y)) |->
     (Limb(x, i) + Limb(y, i)) - And16(Limb(x, i), Limb(y, i))] \o << >>

\* ~x & z (z non-negative, so the result is non-negative)
AndNot(x, z) == [i \in 1..Len(z) |-> z[i] - And16(Limb(x, i), z[i])] \o << >>

\* x & (2^w - 1)
Mask(x, w) ==
  [i \in 1..((w + 15) \div 16) |->
     IF (i * 16) <= w THEN Limb(x, i) ELSE Limb(x, i) % (2^(w - (16 * (i - 1))))] \o << >>

\* x << n
Shl(x, n) ==
  LET q == n \div 16
      r == 2^(n % 16)
  IN [i \in 1..(Len(x) + q + 1) |->
        ((Limb(x, i - q) * r) % Base) + ((Limb(x, i - q - 1) * r) \div Base)] \o << >>

\* x >> n
Shr(x, n) ==
  LET q == n \div 16
      r == 2^(n % 16)
      s == 2^(16 - (n % 16))
  IN [i \in 1..Max(Len(x) - q, 0) |->
        (Limb(x, i + q) \div r) + ((Limb(x, i + q + 1) % r) * s)] \o << >>

RECURSIVE AddCarry(_, _, _, _, _)
AddCarry(x, y, i, c, acc) ==
  IF i > Max(Len(x), Len(y))
  THEN (IF c = 1 THEN Append(acc, 1) ELSE acc)
  ELSE LET s == Limb(x, i) + Limb(y, i) + c
       IN AddCarry(x, y, i + 1, s \div Base, Append(acc, s % Base))

\* x + y
Add(x, y) == AddCarry(x, y, 1, 0, << >>)

RECURSIVE LtFrom(_, _, _)
LtFrom(x, y, i) ==
  IF i = 0 THEN FALSE
  ELSE IF Limb(x, i) # Limb(y, i) THEN Limb(x, i) < Limb(y, i)
  ELSE LtFrom(x, y, i - 1)

\* x < y
Lt(x, y) == LtFrom(x, y, Max(Len(x), Len(y)))

\* x without leading zero digits
RECURSIVE Norm(_)
Norm(x) ==
  IF Len(x) = 0 THEN x
  ELSE IF x[Len(x)] = 0 THEN Norm(SubSeq(x, 1, Len(x) - 1)) ELSE x

\* int(b) of a Python bool
BoolInt(b) == IF b THEN FromNat(1) ELSE FromNat(0)

(***************************************************************************)
(* struct.pack / struct.unpack and format(x, "0nx")                        *)
(***************************************************************************)
\* struct.pack(">Q", x): eight bytes, most significant first
pack_Q(x) ==
  << Limb(x, 4) \div 256, Limb(x, 4) % 256, Limb(x, 3) \div 256, Limb(x, 3) % 256,
     Limb(x, 2) \div 256, Limb(x, 2) % 256, Limb(x, 1) \div 256, Limb(x, 1) % 256 >>

\* struct.unpack(">I", block[4i : 4i + 4])[0]
unpack_I(block, i) ==
  W32((block[(4 * i) + 1] * 256) + block[(4 * i) + 2],
      (block[(4 * i) + 3] * 256) + block[(4 * i) + 4])

\* struct.unpack(">Q", block[8i : 8i + 8])[0]
unpack_Q(block, i) ==
  W64((block[(8 * i) + 1] * 256) + block[(8 * i) + 2],
      (block[(8 * i) + 3] * 256) + block[(8 * i) + 4],
      (block[(8 * i) + 5] * 256) + block[(8 * i) + 6],
      (block[(8 * i) + 7] * 256) + block[(8 * i) + 8])

HexChars == << "0", "1", "2", "3", "4", "5", "6", "7", "8", "9", "a", "b", "c", "d", "e", "f" >>

\* the hexadecimal digits of x, most significant first, four per limb
RECURSIVE Nibbles(_, _)
Nibbles(x, i) ==
  IF i = 0 THEN << >>
  ELSE << x[i] \div 4096, (x[i] \div 256) % 16, (x[i] \div 16) % 16, x[i] % 16 >>
       \o Nibbles(x, i - 1)

RECURSIVE StripZeros(_, _)
StripZeros(ds, n) ==
  IF Len(ds) > n /\ Head(ds) = 0 THEN StripZeros(Tail(ds), n) ELSE ds

\* the digits of format(x, "0nx"): at least n digits, zero padded on the left
format_x(x, n) ==
  LET ds == StripZeros(Nibbles(x, Len(x)), n)
  IN [i \in 1..(n - Len(ds)) |-> 0] \o ds

\* the string made of a sequence of hexadecimal digits
RECURSIVE Str(_, _)
Str(ds, i) ==
  IF i > Len(ds) THEN ""
  ELSE IF i = Len(ds) THEN HexChars[ds[i] + 1]
  ELSE Str(SubSeq(ds, i, (i + Len(ds)) \div 2), 1) \o Str(ds, ((i + Len(ds)) \div 2) + 1)

RECURSIVE JoinDigits(_, _, _)
JoinDigits(ws, n, i) ==
  IF i > Len(ws) THEN << >> ELSE format_x(ws[i], n) \o JoinDigits(ws, n, i + 1)

\* " ".join(format(x, "016x") for x in ws)
RECURSIVE JoinSpaced(_, _)
JoinSpaced(ws, i) ==
  IF i > Len(ws) THEN ""
  ELSE (IF i > 1 THEN " " ELSE "") \o Str(format_x(ws[i], 16), 1) \o JoinSpaced(ws, i + 1)

\* bytearray(message, encoding="ascii") of a message given by its code points:
\* UnicodeEncodeError if a character is not in range(128), else one byte per character
encode_raises(message) == \E i \in 1..Len(message) : message[i] >= 128

encode(message) == message

RECURSIVE PadZerosNoField(_, _, _)
PadZerosNoField(bin, field, size) ==
  IF Len(bin) % size # 0 THEN PadZerosNoField(Append(bin, 0), field, size) ELSE bin

RECURSIVE PadZeros(_, _, _)
PadZeros(bin, field, size) ==
  IF (Len(bin) + field) % size # 0 THEN PadZeros(Append(bin, 0), field, size) ELSE bin

\* the length field _pre_processing appends for a message of ml bits:
\* struct.pack(">Q", ml), or
\* struct.pack(">QQ", (ml & (0xFFFF_FFFF < 32)), ml & 0xFFFF_FFFF)
length_field(v, ml) ==
  IF v = "sha512"
  THEN pack_Q(And(ml, BoolInt(Lt(W32(\HFFFF, \HFFFF), FromNat(32)))))
         \o pack_Q(And(ml, W32(\HFFFF, \HFFFF)))
  ELSE pack_Q(ml)

(***************************************************************************)
(* tb/model/sha1.py                                                        *)
(***************************************************************************)
\* x << n and x >> (32 - n) raise ValueError (negative shift count) for a
\* negative count
left_rotate_raises(x, n) == n < 0 \/ (32 - n) < 0

left_rotate(x, n) == Mask(Or(Shl(x, n), Shr(x, 32 - n)), 32)

maj(x, y, z) == Xor(Xor(And(x, y), And(x, z)), And(y, z))

ch(x, y, z) == Xor(And(x, y), AndNot(x, z))

parity(x, y, z) == Xor(Xor(x, y), z)

sha1_init_h ==
  << W32(\H6745, \H2301), W32(\HEFCD, \HAB89), W32(\H98BA, \HDCFE),
     W32(\H1032, \H5476), W32(\HC3D2, \HE1F0) >>

sha1_pre_processing(message) ==
  LET bin == encode(message)
      ml == FromNat(Len(bin) * 8)
  IN PadZeros(Append(bin, 128), 8, 64) \o length_field("sha1", ml)

RECURSIVE sha1_extend(_)
sha1_extend(w) ==
  IF Len(w) = 80 THEN w
  ELSE LET i == Len(w)
       IN sha1_extend(Append(w,
            left_rotate(Xor(Xor(Xor(w[i - 3 + 1], w[i - 8 + 1]), w[i - 14 + 1]), w[i - 16 + 1]), 1)))

sha1_f(i, b, c, d) ==
  IF i < 20 THEN ch(b, c, d)
  ELSE IF i < 40 THEN parity(b, c, d)
  ELSE IF i < 60 THEN maj(b, c, d)
  ELSE parity(b, c, d)

sha1_k(i) ==
  IF i < 20 THEN W32(\H5A82, \H7999)
  ELSE IF i < 40 THEN W32(\H6ED9, \HEBA1)
  ELSE IF i < 60 THEN W32(\H8F1B, \HBCDC)
  ELSE W32(\HCA62, \HC1D6)

sha1_round(s, w) ==
  [i |-> s.i + 1,
   a |-> Mask(Add(Add(Add(Add(left_rotate(s.a, 5), sha1_f(s.i, s.b, s.c, s.d)), s.e),
                      sha1_k(s.i)), w[s.i + 1]), 32),
   b |-> s.a,
   c |-> left_rotate(s.b, 30),
   d |-> s.c,
   e |-> s.d]

RECURSIVE sha1_rounds(_, _)
sha1_rounds(s, w) == IF s.i = 80 THEN s ELSE sha1_rounds(sha1_round(s, w), w)

\* the new _h after one block
sha1_process_block(hh, block) ==
  LET w == sha1_extend([i \in 1..16 |-> unpack_I(block, i - 1)] \o << >>)
      sum(s) ==
        << Mask(Add(hh[1], s.a), 32), Mask(Add(hh[2], s.b), 32), Mask(Add(hh[3], s.c), 32),
           Mask(Add(hh[4], s.d), 32), Mask(Add(hh[5], s.e), 32) >>
  IN sum(sha1_rounds([i |-> 0, a |-> hh[1], b |-> hh[2], c |-> hh[3], d |-> hh[4],
                      e |-> hh[5]], w))

sha1_digest(hh) == Str(JoinDigits(hh, 8, 1), 1)

(***************************************************************************)
(* tb/sha256/model/sha256.py                                               *)
(***************************************************************************)
sha256_right_rotate(x, n) == Or(Shr(x, n), Shl(x, 32 - n))

sha256_k ==
  << W32(\H428A, \H2F98), W32(\H7137, \H4491), W32(\HB5C0, \HFBCF), W32(\HE9B5, \HDBA5),
     W32(\H3956, \HC25B), W32(\H59F1, \H11F1), W32(\H923F, \H82A4), W32(\HAB1C, \H5ED5),
     W32(\HD807, \HAA98), W32(\H1283, \H5B01), W32(\H2431, \H85BE), W32(\H550C, \H7DC3),
     W32(\H72BE, \H5D74), W32(\H80DE, \HB1FE), W32(\H9BDC, \H06A7), W32(\HC19B, \HF174),
     W32(\HE49B, \H69C1), W32(\HEFBE, \H4786), W32(\H0FC1, \H9DC6), W32(\H240C, \HA1CC),
     W32(\H2DE9, \H2C6F), W32(\H4A74, \H84AA), W32(\H5CB0, \HA9DC), W32(\H76F9, \H88DA),
     W32(\H983E, \H5152), W32(\HA831, \HC66D), W32(\HB003, \H27C8), W32(\HBF59, \H7FC7),
     W32(\HC6E0, \H0BF3), W32(\HD5A7, \H9147), W32(\H06CA, \H6351), W32(\H1429, \H2967),
     W32(\H27B7, \H0A85), W32(\H2E1B, \H2138), W32(\H4D2C, \H6DFC), W32(\H5338, \H0D13),
     W32(\H650A, \H7354), W32(\H766A, \H0ABB), W32(\H81C2, \HC92E), W32(\H9272, \H2C85),
     W32(\HA2BF, \HE8A1), W32(\HA81A, \H664B), W32(\HC24B, \H8B70), W32(\HC76C, \H51A3),
     W32(\HD192, \HE819), W32(\HD699, \H0624), W32(\HF40E, \H3585), W32(\H106A, \HA070),
     W32(\H19A4, \HC116), W32(\H1E37, \H6C08), W32(\H2748, \H774C), W32(\H34B0, \HBCB5),
     W32(\H391C, \H0CB3), W32(\H4ED8, \HAA4A), W32(\H5B9C, \HCA4F), W32(\H682E, \H6FF3),
     W32(\H748F, \H82EE), W32(\H78A5, \H636F), W32(\H84C8, \H7814), W32(\H8CC7, \H0208),
     W32(\H90BE, \HFFFA), W32(\HA450, \H6CEB), W32(\HBEF9, \HA3F7), W32(\HC671, \H78F2) >>

sha256_init_h ==
  << W32(\H6A09, \HE667), W32(\HBB67, \HAE85), W32(\H3C6E, \HF372), W32(\HA54F, \HF53A),
     W32(\H510E, \H527F), W32(\H9B05, \H688C), W32(\H1F83, \HD9AB), W32(\H5BE0, \HCD19) >>

sha256_pre_processing(message) ==
  LET bin == encode(message)
      ml == FromNat(Len(bin) * 8)
  IN PadZeros(Append(bin, 128), 8, 64) \o length_field("sha256", ml)

RECURSIVE sha256_extend(_)
sha256_extend(w) ==
  IF Len(w) = 64 THEN w
  ELSE LET i == Len(w)
           s0 == Xor(Xor(sha256_right_rotate(w[i - 15 + 1], 7),
                         sha256_right_rotate(w[i - 15 + 1], 18)), Shr(w[i - 15 + 1], 3))
           s1 == Xor(Xor(sha256_right_rotate(w[i - 2 + 1], 17),
                         sha256_right_rotate(w[i - 2 + 1], 19)), Shr(w[i - 2 + 1], 10))
       IN sha256_extend(Append(w, Mask(Add(Add(Add(w[i - 16 + 1], s0), w[i - 7 + 1]), s1), 32)))

sha256_round(s, w) ==
  LET s1 == Xor(Xor(sha256_right_rotate(s.e, 6), sha256_right_rotate(s.e, 11)),
                sha256_right_rotate(s.e, 25))
      chv == Xor(And(s.e, s.f), AndNot(s.e, s.g))
      s0 == Xor(Xor(sha256_right_rotate(s.a, 2), sha256_right_rotate(s.a, 13)),
                sha256_right_rotate(s.a, 22))
      majv == Xor(Xor(And(s.a, s.b), And(s.a, s.c)), And(s.b, s.c))
      rotate(temp1, temp2) ==
        [i |-> s.i + 1,
         a |-> Mask(Add(temp1, temp2), 32), b |-> s.a, c |-> s.b, d |-> s.c,
         e |-> Mask(Add(s.d, temp1), 32), f |-> s.e, g |-> s.f, h |-> s.g]
  IN rotate(Mask(Add(Add(Add(Add(s.h, s1), chv), sha256_k[s.i + 1]), w[s.i + 1]), 32),
            Mask(Add(s0, majv), 32))

RECURSIVE sha256_rounds(_, _)
sha256_rounds(s, w) == IF s.i = 64 THEN s ELSE sha256_rounds(sha256_round(s, w), w)

sha256_process_block(hh, block) ==
  LET w == sha256_extend([i \in 1..16 |-> unpack_I(block, i - 1)] \o << >>)
      sum(s) ==
        << Mask(Add(hh[1], s.a), 32), Mask(Add(hh[2], s.b), 32), Mask(Add(hh[3], s.c), 32),
           Mask(Add(hh[4], s.d), 32), Mask(Add(hh[5], s.e), 32), Mask(Add(hh[6], s.f), 32),
           Mask(Add(hh[7], s.g), 32), Mask(Add(hh[8], s.h), 32) >>
  IN sum(sha256_rounds([i |-> 0, a |-> hh[1], b |-> hh[2], c |-> hh[3], d |-> hh[4],
                        e |-> hh[5], f |-> hh[6], g |-> hh[7], h |-> hh[8]], w))

sha256_digest(hh) == Str(JoinDigits(hh, 8, 1), 1)

(***************************************************************************)
(* tb/sha2/model/sha512.py                                                 *)
(***************************************************************************)
\* a shift in place of the rotation: the bits shifted out are lost
sha512_shift_only(x, n) == Shr(x, n)

sha512_right_rotate(x, n) == Or(Shr(x, n), Shl(x, 64 - n))

sha512_k ==
  << W64(\H428A, \H2F98, \HD728, \HAE22), W64(\H7137, \H4491, \H23EF, \H65CD),
     W64(\HB5C0, \HFBCF, \HEC4D, \H3B2F), W64(\HE9B5, \HDBA5, \H8189, \HDBBC),
     W64(\H3956, \HC25B, \HF348, \HB538), W64(\H59F1, \H11F1, \HB605, \HD019),
     W64(\H923F, \H82A4, \HAF19, \H4F9B), W64(\HAB1C, \H5ED5, \HDA6D, \H8118),
     W64(\HD807, \HAA98, \HA303, \H0242), W64(\H1283, \H5B01, \H4570, \H6FBE),
     W64(\H2431, \H85BE, \H4EE4, \HB28C), W64(\H550C, \H7DC3, \HD5FF, \HB4E2),
     W64(\H72BE, \H5D74, \HF27B, \H896F), W64(\H80DE, \HB1FE, \H3B16, \H96B1),
     W64(\H9BDC, \H06A7, \H25C7, \H1235), W64(\HC19B, \HF174, \HCF69, \H2694),
     W64(\HE49B, \H69C1, \H9EF1, \H4AD2), W64(\HEFBE, \H4786, \H384F, \H25E3),
     W64(\H0FC1, \H9DC6, \H8B8C, \HD5B5), W64(\H240C, \HA1CC, \H77AC, \H9C65),
     W64(\H2DE9, \H2C6F, \H592B, \H0275), W64(\H4A74, \H84AA, \H6EA6, \HE483),
     W64(\H5CB0, \HA9DC, \HBD41, \HFBD4), W64(\H76F9, \H88DA, \H8311, \H53B5),
     W64(\H983E, \H5152, \HEE66, \HDFAB), W64(\HA831, \HC66D, \H2DB4, \H3210),
     W64(\HB003, \H27C8, \H98FB, \H213F), W64(\HBF59, \H7FC7, \HBEEF, \H0EE4),
     W64(\HC6E0, \H0BF3, \H3DA8, \H8FC2), W64(\HD5A7, \H9147, \H930A, \HA725),
     W64(\H06CA, \H6351, \HE003, \H826F), W64(\H1429, \H2967, \H0A0E, \H6E70),
     W64(\H27B7, \H0A85, \H46D2, \H2FFC), W64(\H2E1B, \H2138, \H5C26, \HC926),
     W64(\H4D2C, \H6DFC, \H5AC4, \H2AED), W64(\H5338, \H0D13, \H9D95, \HB3DF),
     W64(\H650A, \H7354, \H8BAF, \H63DE), W64(\H766A, \H0ABB, \H3C77, \HB2A8),
     W64(\H81C2, \HC92E, \H47ED, \HAEE6), W64(\H9272, \H2C85, \H1482, \H353B),
     W64(\HA2BF, \HE8A1, \H4CF1, \H0364), W64(\HA81A, \H664B, \HBC42, \H3001),
     W64(\HC24B, \H8B70, \HD0F8, \H9791), W64(\HC76C, \H51A3, \H0654, \HBE30),
     W64(\HD192, \HE819, \HD6EF, \H5218), W64(\HD699, \H0624, \H5565, \HA910),
     W64(\HF40E, \H3585, \H5771, \H202A), W64(\H106A, \HA070, \H32BB, \HD1B8),
     W64(\H19A4, \HC116, \HB8D2, \HD0C8), W64(\H1E37, \H6C08, \H5141, \HAB53),
     W64(\H2748, \H774C, \HDF8E, \HEB99), W64(\H34B0, \HBCB5, \HE19B, \H48A8),
     W64(\H391C, \H0CB3, \HC5C9, \H5A63), W64(\H4ED8, \HAA4A, \HE341, \H8ACB),
     W64(\H5B9C, \HCA4F, \H7763, \HE373), W64(\H682E, \H6FF3, \HD6B2, \HB8A3),
     W64(\H748F, \H82EE, \H5DEF, \HB2FC), W64(\H78A5, \H636F, \H4317, \H2F60),
     W64(\H84C8, \H7814, \HA1F0, \HAB72), W64(\H8CC7, \H0208, \H1A64, \H39EC),
     W64(\H90BE, \HFFFA, \H2363, \H1E28), W64(\HA450, \H6CEB, \HDE82, \HBDE9),
     W64(\HBEF9, \HA3F7, \HB2C6, \H7915), W64(\HC671, \H78F2, \HE372, \H532B),
     W64(\HCA27, \H3ECE, \HEA26, \H619C), W64(\HD186, \HB8C7, \H21C0, \HC207),
     W64(\HEADA, \H7DD6, \HCDE0, \HEB1E), W64(\HF57D, \H4F7F, \HEE6E, \HD178),
     W64(\H06F0, \H67AA, \H7217, \H6FBA), W64(\H0A63, \H7DC5, \HA2C8, \H98A6),
     W64(\H113F, \H9804, \HBEF9, \H0DAE), W64(\H1B71, \H0B35, \H131C, \H471B),
     W64(\H28DB, \H77F5, \H2304, \H7D84), W64(\H32CA, \HAB7B, \H40C7, \H2493),
     W64(\H3C9E, \HBE0A, \H15C9, \HBEBC), W64(\H431D, \H67C4, \H9C10, \H0D4C),
     W64(\H4CC5, \HD4BE, \HCB3E, \H42B6), W64(\H597F, \H299C, \HFC65, \H7E2A),
     W64(\H5FCB, \H6FAB, \H3AD6, \HFAEC), W64(\H6C44, \H198C, \H4A47, \H5817) >>

sha512_h ==
  << W64(\H6A09, \HE667, \HF3BC, \HC908), W64(\HBB67, \HAE85, \H84CA, \HA73B),
     W64(\H3C6E, \HF372, \HFE94, \HF82B), W64(\HA54F, \HF53A, \H5F1D, \H36F1),
     W64(\H510E, \H527F, \HADE6, \H82D1), W64(\H9B05, \H688C, \H2B3E, \H6C1F),
     W64(\H1F83, \HD9AB, \HFB41, \HBD6B), W64(\H5BE0, \HCD19, \H137E, \H2179) >>

sha384_h ==
  << W64(\HCBBB, \H9D5D, \HC105, \H9ED8), W64(\H629A, \H292A, \H367C, \HD507),
     W64(\H9159, \H015A, \H3070, \HDD17), W64(\H152F, \HECD8, \HF70E, \H5939),
     W64(\H6733, \H2667, \HFFC0, \H0B31), W64(\H8EB4, \H4A87, \H6858, \H1511),
     W64(\HDB0C, \H2E0D, \H64F9, \H8FA7), W64(\H47B5, \H481D, \HBEFA, \H4FA4) >>

sha256_h ==
  << W64(\H2231, \H2194, \HFC2B, \HF72C), W64(\H9F55, \H5FA3, \HC84C, \H64C2),
     W64(\H2393, \HB86B, \H6F53, \HB151), W64(\H9638, \H7719, \H5940, \HEABD),
     W64(\H9628, \H3EE2, \HA88E, \HFFE3), W64(\HBE5E, \H1E25, \H5386, \H3992),
     W64(\H2B01, \H99FC, \H2C85, \HB8AA), W64(\H0EB7, \H2DDC, \H81C5, \H2CA2) >>

sha224_h ==
  << W64(\H8C3D, \H37C8, \H1954, \H4DA2), W64(\H73E1, \H9966, \H89DC, \HD4D6),
     W64(\H1DFA, \HB7AE, \H32FF, \H9C82), W64(\H679D, \HD514, \H582F, \H9FCF),
     W64(\H0F6D, \H2B69, \H7BD4, \H4DA8), W64(\H77E3, \H6F73, \H04C4, \H8942),
     W64(\H3F9D, \H85A8, \H6A1D, \H36C8), W64(\H1112, \HE6AD, \H91D6, \H92A1) >>

init_hash_512(digest_width) == sha512_h

init_hash(digest_width) ==
  CASE digest_width = 512 -> sha512_h
    [] digest_width = 384 -> sha384_h
    [] digest_width = 256 -> sha256_h
    [] digest_width = 224 -> sha224_h

sha512_pre_processing(message) ==
  LET bin == encode(message)
      ml == FromNat(Len(bin) * 8)
  IN PadZeros(Append(bin, 128), 16, 128) \o length_field("sha512", ml)

RECURSIVE sha512_extend(_)
sha512_extend(w) ==
  IF Len(w) = 80 THEN w
  ELSE LET i == Len(w)
           s0 == Xor(Xor(sha512_right_rotate(w[i - 15 + 1], 1),
                         sha512_right_rotate(w[i - 15 + 1], 8)), Shr(w[i - 15 + 1], 7))
           s1 == Xor(Xor(sha512_right_rotate(w[i - 2 + 1], 19),
                         sha512_right_rotate(w[i - 2 + 1], 61)), Shr(w[i - 2 + 1], 6))
       IN sha512_extend(Append(w, Mask(Add(Add(Add(w[i - 16 + 1], s0), w[i - 7 + 1]), s1), 64)))

sha512_round(s, w) ==
  LET s1 == Xor(Xor(sha512_right_rotate(s.e, 14), sha512_right_rotate(s.e, 18)),
                sha512_right_rotate(s.e, 41))
      chv == Xor(And(s.e, s.f), AndNot(s.e, s.g))
      s0 == Xor(Xor(sha512_right_rotate(s.a, 28), sha512_right_rotate(s.a, 34)),
                sha512_right_rotate(s.a, 39))
      majv == Xor(Xor(And(s.a, s.b), And(s.a, s.c)), And(s.b, s.c))
      rotate(a2, e2) ==
        [i |-> s.i + 1,
         a |-> a2, b |-> s.a, c |-> s.b, d |-> s.c,
         e |-> e2, f |-> s.e, g |-> s.f, h |-> s.g,
         rc |-> Append(s.rc, JoinSpaced(<< a2, s.a, s.b, s.c, e2, s.e, s.f, s.g >>, 1))]
      sums(temp1, temp2) == rotate(Mask(Add(temp1, temp2), 64), Mask(Add(s.d, temp1), 64))
  IN sums(Mask(Add(Add(Add(Add(s.h, s1), chv), sha512_k[s.i + 1]), w[s.i + 1]), 64),
          Mask(Add(s0, majv), 64))

RECURSIVE sha512_rounds(_, _)
sha512_rounds(s, w) == IF s.i = 80 THEN s ELSE sha512_rounds(sha512_round(s, w), w)

\* the new _h and the new round_computations after one block
sha512_process_block(hh, rc, block) ==
  LET w == sha512_extend([i \in 1..16 |-> unpack_Q(block, i - 1)] \o << >>)
      sum(s) ==
        [h |-> << Mask(Add(hh[1], s.a), 64), Mask(Add(hh[2], s.b), 64), Mask(Add(hh[3], s.c), 64),
                  Mask(Add(hh[4], s.d), 64), Mask(Add(hh[5], s.e), 64), Mask(Add(hh[6], s.f), 64),
                  Mask(Add(hh[7], s.g), 64), Mask(Add(hh[8], s.h), 64) >>,
         rc |-> s.rc]
  IN sum(sha512_rounds([i |-> 0, a |-> hh[1], b |-> hh[2], c |-> hh[3], d |-> hh[4],
                        e |-> hh[5], f |-> hh[6], g |-> hh[7], h |-> hh[8],
                        rc |-> Append(rc, JoinSpaced(hh, 1))], w))

sha512_digest_full(hh, digest_width) == Str(JoinDigits(hh, 16, 1), 1)

sha512_digest(hh, digest_width) ==
  LET d == JoinDigits(hh, 16, 1)
      end_idx == digest_width \div 4
  IN Str(SubSeq(d, 1, Min(end_idx, Len(d))), 1)

(***************************************************************************)
(* One model instance: sha1(), sha256() or sha512(digest_width), and the   *)
(* calls process(message) and digest() made on it.                         *)
(***************************************************************************)
VARIABLES
  variant,             \* "none" before construction, else the class of the instance
  digest_width,        \* sha512._digest_width (0 for the other classes)
  h,                   \* _h
  dbg_hash_values,     \* _dbg_hash_values
  round_computations,  \* sha512.round_computations
  blocks,              \* sha512.blocks
  ret,                 \* what the last process call that returned, returned
  raised,              \* the exception the last call raised, "none" if it returned
  calls,               \* number of process calls made on the instance
  processed            \* the messages of the process calls that returned, in call order

hashVars ==
  << variant, digest_width, h, dbg_hash_values, round_computations, blocks, ret, raised,
     calls, processed >>

\* ASCII messages, as code points
msg_empty == << >>

msg_abc == << 97, 98, 99 >>

\* "abcdbcdecdefdefgefghfghighijhijkijkljklmklmnlmnomnopnopq"
msg_448 ==
  << 97, 98, 99, 100, 98, 99, 100, 101, 99, 100, 101, 102, 100, 101, 102, 103,
     101, 102, 103, 104, 102, 103, 104, 105, 103, 104, 105, 106, 104, 105, 106, 107,
     105, 106, 107, 108, 106, 107, 108, 109, 107, 108, 109, 110, 108, 109, 110, 111,
     109, 110, 111, 112, 110, 111, 112, 113 >>

\* "abcdefghbcdefghicdefghijdefghijkefghijklfghijklmghijklmnhijklmno"
\* "ijklmnopjklmnopqklmnopqrlmnopqrsmnopqrstnopqrstu"
msg_896 ==
  << 97, 98, 99, 100, 101, 102, 103, 104, 98, 99, 100, 101, 102, 103, 104, 105,
     99, 100, 101, 102, 103, 104, 105, 106, 100, 101, 102, 103, 104, 105, 106, 107,
     101, 102, 103, 104, 105, 106, 107, 108, 102, 103, 104, 105, 106, 107, 108, 109,
     103, 104, 105, 106, 107, 108, 109, 110, 104, 105, 106, 107, 108, 109, 110, 111,
     105, 106, 107, 108, 109, 110, 111, 112, 106, 107, 108, 109, 110, 111, 112, 113,
     107, 108, 109, 110, 111, 112, 113, 114, 108, 109, 110, 111, 112, 113, 114, 115,
     109, 110, 111, 112, 113, 114, 115, 116, 110, 111, 112, 113, 114, 115, 116, 117 >>

\* "é"
msg_eacute == << 233 >>

Messages == { msg_empty, msg_abc, msg_448, msg_896, msg_eacute }

DigestWidths == { 224, 256, 384, 512 }

\* keyword arguments the tests construct the models with
Keywords == { "debug", "encoding", "sha224", "digest_width" }

\* process calls made on one instance
MaxCalls == 2

block_size(v) == IF v = "sha512" THEN 128 ELSE 64

pre_processing(v, message) ==
  CASE v = "sha1" -> sha1_pre_processing(message)
    [] v = "sha256" -> sha256_pre_processing(message)
    [] v = "sha512" -> sha512_pre_processing(message)

digest(v, hh, dw) ==
  CASE v = "sha1" -> sha1_digest(hh)
    [] v = "sha256" -> sha256_digest(hh)
    [] v = "sha512" -> sha512_digest(hh, dw)

process_step_stale(st, pre, m) ==
  LET size == block_size(st.v)
      block == SubSeq(pre, m + 1, Min(m + size, Len(pre)))
      after(nx) ==
        [v |-> st.v, dw |-> st.dw, h |-> nx.h, rc |-> nx.rc,
         blocks |-> IF st.v = "sha512" THEN Append(st.blocks, block) ELSE st.blocks,
         dbg |-> Append(st.dbg, digest(st.v, st.h, st.dw))]
  IN after(CASE st.v = "sha1" -> [h |-> sha1_process_block(st.h, block), rc |-> st.rc]
             [] st.v = "sha256" -> [h |-> sha256_process_block(st.h, block), rc |-> st.rc]
             [] st.v = "sha512" -> sha512_process_block(st.h, st.rc, block))

\* one iteration of the for loop of process, on the block at offset m
process_step(st, pre, m) ==
  LET size == block_size(st.v)
      block == SubSeq(pre, m + 1, Min(m + size, Len(pre)))
      after(nx) ==
        [v |-> st.v, dw |-> st.dw, h |-> nx.h, rc |-> nx.rc,
         blocks |-> IF st.v = "sha512" THEN Append(st.blocks, block) ELSE st.blocks,
         dbg |-> Append(st.dbg, digest(st.v, nx.h, st.dw))]
  IN after(CASE st.v = "sha1" -> [h |-> sha1_process_block(st.h, block), rc |-> st.rc]
             [] st.v = "sha256" -> [h |-> sha256_process_block(st.h, block), rc |-> st.rc]
             [] st.v = "sha512" -> sha512_process_block(st.h, st.rc, block))

\* for m in range(0, l, size)
RECURSIVE process_loop(_, _, _)
process_loop(st, pre, m) ==
  IF m >= Len(pre) THEN st
  ELSE process_loop(process_step(st, pre, m), pre, m + block_size(st.v))

HashIdle ==
  /\ variant = "none"
  /\ digest_width = 0
  /\ h = << >>
  /\ dbg_hash_values = << >>
  /\ round_computations = << >>
  /\ blocks = << >>
  /\ ret = "none"
  /\ raised = "none"
  /\ calls = 0
  /\ processed = << >>

\* sha1(kw=...), sha256(kw=...): the instance, or TypeError for a keyword that
\* __init__(self, debug, encoding) does not have
Construct(v, kw) ==
  /\ variant = "none"
  /\ IF kw \in { "debug", "encoding" }
     THEN /\ variant' = v
          /\ digest_width' = 0
          /\ h' = (IF v = "sha1" THEN sha1_init_h ELSE sha256_init_h)
          /\ raised' = "none"
     ELSE /\ raised' = "TypeError"
          /\ UNCHANGED << variant, digest_width, h >>
  /\ dbg_hash_values' = << >>
  /\ round_computations' = << >>
  /\ blocks' = << >>
  /\ UNCHANGED << ret, calls, processed >>

\* assert digest_width in [224, 256, 384, 512]
supported_but_224(dw) == dw \in { 256, 384, 512 }

supported(dw) == dw \in { 224, 256, 384, 512 }

\* sha512(digest_width=dw): the instance, or AssertionError and no instance
Construct512(dw) ==
  /\ variant = "none"
  /\ IF supported(dw)
     THEN /\ variant' = "sha512"
          /\ digest_width' = dw
          /\ h' = init_hash(dw)
          /\ raised' = "none"
     ELSE /\ raised' = "AssertionError"
          /\ UNCHANGED << variant, digest_width, h >>
  /\ dbg_hash_values' = << >>
  /\ round_computations' = << >>
  /\ blocks' = << >>
  /\ UNCHANGED << ret, calls, processed >>

\* the instance after process(message), and what the call returns
process(st, message) ==
  LET returned(done) == [st |-> done, ret |-> digest(done.v, done.h, done.dw)]
  IN returned(process_loop(st, pre_processing(st.v, message), 0))

\* process(message): the digest, or UnicodeEncodeError out of _pre_processing
Process(message) ==
  /\ variant # "none"
  /\ calls < MaxCalls
  /\ IF encode_raises(message)
     THEN /\ raised' = "UnicodeEncodeError"
          /\ UNCHANGED << h, dbg_hash_values, round_computations, blocks, ret, processed >>
     ELSE /\ \E r \in { process([v |-> variant, dw |-> digest_width, h |-> h,
                                  rc |-> round_computations, blocks |-> blocks,
                                  dbg |-> dbg_hash_values], message) } :
                /\ h' = r.st.h
                /\ dbg_hash_values' = r.st.dbg
                /\ round_computations' = r.st.rc
                /\ blocks' = r.st.blocks
                /\ ret' = r.ret
          /\ raised' = "none"
          /\ processed' = Append(processed, message)
  /\ calls' = calls + 1
  /\ UNCHANGED << variant, digest_width >>

(***************************************************************************)
(* _pre_processing as a function of the message alone: the three classes   *)
(* applied to messages of every length up to MaxPadLen.                    *)
(***************************************************************************)
VARIABLES
  pad_variant,   \* the class whose _pre_processing is applied
  pad_message,   \* the message, as code points
  pad_out,       \* the bytes _pre_processing returned
  pad_done       \* whether _pre_processing has been applied

padVars == << pad_variant, pad_message, pad_out, pad_done >>

\* longest message given to _pre_processing
MaxPadLen == 130

Variants == { "sha1", "sha256", "sha512" }

\* messages of n characters: n times "a", or the characters 1, 2, 3, ...
PadMessages ==
  { [i \in 1..n |-> 97] \o << >> : n \in 0..MaxPadLen }
    \cup { [i \in 1..n |-> i % 128] \o << >> : n \in 0..MaxPadLen }

PadIdle ==
  /\ pad_variant = "none"
  /\ pad_message = << >>
  /\ pad_out = << >>
  /\ pad_done = FALSE

PadInit ==
  /\ pad_variant \in Variants
  /\ pad_message \in PadMessages
  /\ pad_out = << >>
  /\ pad_done = FALSE

\* _pre_processing(message)
PreProcessing ==
  /\ pad_variant \in Variants
  /\ ~pad_done
  /\ pad_out' = pre_processing(pad_variant, pad_message)
  /\ pad_done' = TRUE
  /\ UNCHANGED << pad_variant, pad_message >>

(***************************************************************************)
(* The length field as a function of the message length alone, for         *)
(* messages too long to be written out byte by byte.                       *)
(***************************************************************************)
VARIABLES
  len_variant,   \* the class whose _pre_processing is applied
  len_ml,        \* ml, the length of the message in bits
  len_field,     \* the bytes appended after the padding
  len_done       \* whether the field has been computed

lenVars == << len_variant, len_ml, len_field, len_done >>

\* messages have m * 2^k bytes, m odd below 8 and k up to MaxLenShift, or none
MaxLenShift == 30

BitLengths ==
  { << >> } \cup { Norm(Shl(<< m >>, k + 3)) : m \in { 1, 3, 5, 7 }, k \in 0..MaxLenShift }

LenIdle ==
  /\ len_variant = "none"
  /\ len_ml = << >>
  /\ len_field = << >>
  /\ len_done = FALSE

LenInit ==
  /\ len_variant \in Variants
  /\ len_ml \in BitLengths
  /\ len_field = << >>
  /\ len_done = FALSE

\* _bin_message += struct.pack(...)
LengthField ==
  /\ len_variant \in Variants
  /\ ~len_done
  /\ len_field' = length_field(len_variant, len_ml)
  /\ len_done' = TRUE
  /\ UNCHANGED << len_variant, len_ml >>

(***************************************************************************)
(* tb/test_prim_rotl.py: left_rotate as the expected output of the rotate  *)
(* primitive, for each Position the test is parametrized with.             *)
(***************************************************************************)
VARIABLES
  in0,             \* the 32-bit input word
  POSITION,        \* the rotation position of the primitive
  expected_rotl,   \* what left_rotate(in0, POSITION) returned
  rotl_raised,     \* the exception it raised, "none" if it returned
  rotl_done        \* whether left_rotate has been called

rotlVars == << in0, POSITION, expected_rotl, rotl_raised, rotl_done >>

\* @pytest.mark.parametrize("rot_position", [0, 16, 32, 48, 64])
rot_position == { 0, 16, 32, 48, 64 }

\* values of getrandbits(32)
RandBits32 == { W32(hi, lo) : hi, lo \in { 0, 1, \H8000, \HFFFF, \H1234, \HABCD } }

RotlIdle ==
  /\ in0 = << >>
  /\ POSITION = 0
  /\ expected_rotl = << >>
  /\ rotl_raised = "none"
  /\ rotl_done = FALSE

RotlInit ==
  /\ in0 \in RandBits32
  /\ POSITION \in rot_position
  /\ expected_rotl = << >>
  /\ rotl_raised = "none"
  /\ rotl_done = FALSE

\* expected_rotl: int = left_rotate(in0, POSITION)
LeftRotate ==
  /\ ~rotl_done
  /\ rotl_done' = TRUE
  /\ IF left_rotate_raises(in0, POSITION)
     THEN /\ rotl_raised' = "ValueError"
          /\ UNCHANGED expected_rotl
     ELSE /\ rotl_raised' = "none"
          /\ expected_rotl' = Norm(left_rotate(in0, POSITION))
  /\ UNCHANGED << in0, POSITION >>

(***************************************************************************)
(* tb/interface/test_simple_interface.py, tb/interface/test_regs.py:       *)
(* sim_strobe_write, the expected value of a register after a write with   *)
(* byte strobes.                                                           *)
(***************************************************************************)
RECURSIVE strobe_loop(_, _, _, _, _)
strobe_loop(regval, prevval, wrval, strobe, b) ==
  IF b.i >= b.n THEN regval
  ELSE LET data == IF BitOf(strobe, b.i) = 1 THEN wrval ELSE prevval
       IN strobe_loop(Or(regval, And(data, Shl(<< 255 >>, b.i * 8))), prevval, wrval, strobe,
                      [i |-> b.i + 1, n |-> b.n])

RECURSIVE strobe_loop_bits(_, _, _, _, _)
strobe_loop_bits(regval, prevval, wrval, strobe, b) ==
  IF b.i >= b.n THEN regval
  ELSE LET data == IF BitOf(strobe, b.i) = 1 THEN wrval ELSE prevval
       IN strobe_loop_bits(Or(regval, And(data, Shl(<< 255 >>, b.i))), prevval, wrval, strobe,
                           [i |-> b.i + 1, n |-> b.n])

sim_strobe_write_bits(prevval, wrval, strobe, databytes) ==
  strobe_loop_bits(<< 0 >>, prevval, wrval, strobe, [i |-> 0, n |-> databytes])

sim_strobe_write(prevval, wrval, strobe, databytes) ==
  strobe_loop(<< 0 >>, prevval, wrval, strobe, [i |-> 0, n |-> databytes])

VARIABLES
  sw_prevval,    \* prevval
  sw_wrval,      \* wrval
  sw_strobe,     \* strobe
  sw_databytes,  \* databytes
  sw_regval,     \* the value sim_strobe_write returned
  sw_done        \* whether sim_strobe_write has returned

strobeVars == << sw_prevval, sw_wrval, sw_strobe, sw_databytes, sw_regval, sw_done >>

DataBytes == { 1, 2, 4, 8 }

\* register values, cut to the width of the register
StrobeValues(databytes) ==
  { Mask(x, 8 * databytes) :
      x \in { W64(\H0123, \H4567, \H89AB, \HCDEF), W64(\HFFFF, \HFFFF, \HFFFF, \HFFFF),
              W64(0, 0, 0, 0), W64(\HA55A, \H00FF, \H8001, \H7F10) } }

StrobeIdle ==
  /\ sw_prevval = << >>
  /\ sw_wrval = << >>
  /\ sw_strobe = 0
  /\ sw_databytes = 0
  /\ sw_regval = << >>
  /\ sw_done = FALSE

\* the strobes of databytes bits, and those with one bit more
StrobeInit ==
  /\ sw_databytes \in DataBytes
  /\ sw_prevval \in StrobeValues(sw_databytes)
  /\ sw_wrval \in StrobeValues(sw_databytes)
  /\ sw_strobe \in 0..((2^(sw_databytes + 1)) - 1)
  /\ sw_regval = << >>
  /\ sw_done = FALSE

\* sim_strobe_write(prevval, wrval, strobe, databytes)
SimStrobeWrite ==
  /\ sw_databytes \in DataBytes
  /\ ~sw_done
  /\ sw_regval' = sim_strobe_write(sw_prevval, sw_wrval, sw_strobe, sw_databytes)
  /\ sw_done' = TRUE
  /\ UNCHANGED << sw_prevval, sw_wrval, sw_strobe, sw_databytes >>

(***************************************************************************)
(* tb/interface/utils.py, tb/driver.py, tb/interface/bus/master.py and the *)
(* tests of tb/interface: the register bus.  Values carried by the bus are *)
(* Python integers without leading zero digits.                            *)
(***************************************************************************)
\* Base addresses
CTRL_ADDR == 0

BLOCK_ADDR == 256

DIGEST_ADDR == 512

\* list(range(0, stop, step))
range(stop, step) == [i \in 1..((stop + step - 1) \div step) |-> (i - 1) * step] \o << >>

\* utils.align raises ZeroDivisionError
align_raises(addr, step) == step = 0

\* utils.align: int(addr / step)
align(addr, step) == addr \div step

\* align of the tests: step = 8 if bytealign else 32
test_align_bytes(addr, bytealign) == addr \div 8

test_align(addr, bytealign) ==
  LET step == IF bytealign # 0 THEN 8 ELSE 32
  IN addr \div step

\* REGS_ADDR of the tests, for the block and the digest registers
REGS_ADDR(t, BASE_ADDR, WIDTH) ==
  LET r == range(WIDTH, t.DataWidth)
  IN [i \in 1..Len(r) |-> test_align(r[i], t.ByteAlign) + BASE_ADDR] \o << >>

\* the value None
None == << -1 >>

\* strobe: Optional[int] = None
NoStrobe == -1

\* int("1" * len(self.bus.reqstrobe), 2)
default_strobe_zero(t) == 0

default_strobe(t) == (2^(t.DataWidth \div 8)) - 1

VARIABLES
  top,         \* parameters of the design: DataWidth, ByteAlign, BlockWidth, DigestWidth
  driver,      \* the Driver: its fields, or the exception its constructor raised
  lock,        \* whether the lock of the master is held
  call,        \* the read or write of the master in progress, and where it waits
  dop,         \* the operation of the Driver in progress
  reqaddr, reqdata, reqwrite, reqvalid, reqstrobe, rspready,   \* signals the master drives
  rspvalid, rsperror, rspdata,                                 \* signals the slave drives
  ctrl,        \* control register of the slave
  block_regs,  \* block registers of the slave
  digest_i,    \* digest input of the slave
  hist,        \* operations that returned: kind, address, value, strobe, ret
  txlog,       \* requests asserted since the operation in progress began
  n_rsp,       \* responses produced since the operation in progress began
  coros        \* coroutines that called the master concurrently: their call, where they wait

busVars ==
  << top, driver, lock, call, dop, reqaddr, reqdata, reqwrite, reqvalid, reqstrobe, rspready,
     rspvalid, rsperror, rspdata, ctrl, block_regs, digest_i, hist, txlog, n_rsp, coros >>

(***************************************************************************)
(* The slave (simple register interface of the design)                     *)
(***************************************************************************)
\* step = alignment ? 8 : 32; address(i) = base + floor((i * data_width) / step)
addresses_for(base, width_bits, data_width, alignment) ==
  LET step == IF alignment # 0 THEN 8 ELSE 32
  IN [i \in 1..((width_bits + data_width - 1) \div data_width) |->
        base + (((i - 1) * data_width) \div step)] \o << >>

IndexOf(s, x) == IF \E i \in 1..Len(s) : s[i] = x THEN CHOOSE i \in 1..Len(s) : s[i] = x ELSE 0

\* region an address decodes to, and register index in the region
slave_decode(t, addr) ==
  LET b == IndexOf(addresses_for(BLOCK_ADDR, t.BlockWidth, t.DataWidth, t.ByteAlign), addr)
      d == IndexOf(addresses_for(DIGEST_ADDR, t.DigestWidth, t.DataWidth, t.ByteAlign), addr)
  IN IF addr = CTRL_ADDR THEN [region |-> "ctrl", index |-> 1]
     ELSE IF b # 0 THEN [region |-> "block", index |-> b]
     ELSE IF d # 0 THEN [region |-> "digest", index |-> d]
     ELSE [region |-> "none", index |-> 0]

\* writable bits of the control register: enable (bit 0), last block (bit 2)
CtrlMask == 5

\* byte-strobe masked overwrite of a register
slave_merge(t, prev, data, strobe) ==
  Norm(strobe_loop(<< 0 >>, prev, data, strobe, [i |-> 0, n |-> t.DataWidth \div 8]))

\* the control register after a write
slave_ctrl_write(t, prev, data, strobe) ==
  IF BitOf(strobe, 0) = 0 THEN prev
  ELSE IF BitOf(Limb(data, 1), 1) = 1 THEN << >>
  ELSE Norm(And(slave_merge(t, prev, data, strobe), << CtrlMask >>))

\* slice of the digest read at a digest register address
slave_digest_read(t, dig, addr) ==
  LET shift == IF t.ByteAlign # 0 THEN 8 ELSE 32
  IN Norm(Mask(Shr(dig, (addr % 256) * shift), t.DataWidth))

\* the slave at a rising edge of the clock, on the request it samples
slave_edge(t, s, rq) ==
  LET dec == slave_decode(t, rq.reqaddr)
      idle == [ctrl |-> s.ctrl, block_regs |-> s.block_regs,
               rspvalid |-> 0, rsperror |-> 0, rspdata |-> << >>]
  IN IF rq.reqvalid = 0 THEN idle
     ELSE IF dec.region = "none" THEN [idle EXCEPT !.rsperror = 1]
     ELSE IF rq.reqwrite = 0
     THEN [idle EXCEPT !.rspvalid = 1,
                       !.rspdata = CASE dec.region = "ctrl" -> s.ctrl
                                     [] dec.region = "block" -> s.block_regs[dec.index]
                                     [] dec.region = "digest" ->
                                          slave_digest_read(t, s.digest_i, rq.reqaddr)]
     ELSE [idle EXCEPT !.rspvalid = 1,
                       !.ctrl = IF dec.region = "ctrl"
                                THEN slave_ctrl_write(t, s.ctrl, rq.reqdata, rq.reqstrobe)
                                ELSE s.ctrl,
                       !.block_regs =
                          IF dec.region = "block"
                          THEN [s.block_regs EXCEPT ![dec.index] =
                                  slave_merge(t, s.block_regs[dec.index], rq.reqdata, rq.reqstrobe)]
                          ELSE s.block_regs]

(***************************************************************************)
(* tb/interface/bus/master.py: SimpleMaster                                *)
(***************************************************************************)
NoCall == [kind |-> "none", address |-> 0, value |-> << >>, strobe |-> NoStrobe, stage |-> 0]

\* self._acquire_lock(), self._release_lock()
acquire_lock(l) == TRUE

release_lock(l) == FALSE

\* read(address), up to its first await
master_read(address) ==
  [kind |-> "read", address |-> address, value |-> << >>, strobe |-> NoStrobe, stage |-> 0]

\* write(address, value, strobe), up to its first await
master_write(address, value, strobe) ==
  [kind |-> "write", address |-> address, value |-> value, strobe |-> strobe, stage |-> 0]

\* write resumed by a rising edge of the clock; reqaddr.value.binstr = ... and
\* reqdata.value.binstr = ... leave the signals as they are
master_write_edge(t, c, sig) ==
  IF c.stage = 0
  THEN [call |-> [c EXCEPT !.stage = 1],
        sig |-> [reqaddr |-> c.address, reqdata |-> c.value, reqwrite |-> 1, reqvalid |-> 1,
                 reqstrobe |-> IF c.strobe = NoStrobe THEN default_strobe(t) ELSE c.strobe],
        asserted |-> TRUE, returned |-> FALSE, data |-> None]
  ELSE [call |-> NoCall,
        sig |-> [sig EXCEPT !.reqwrite = 0, !.reqvalid = 0, !.reqstrobe = 0],
        asserted |-> FALSE, returned |-> TRUE, data |-> None]

\* read that leaves the request asserted while it waits for the response
master_read_edge_held(t, c, sig, rsp) ==
  IF c.stage = 0
  THEN [call |-> [c EXCEPT !.stage = 1],
        sig |-> [sig EXCEPT !.reqaddr = c.address, !.reqwrite = 0, !.reqvalid = 1,
                            !.reqstrobe = default_strobe(t)],
        asserted |-> TRUE, returned |-> FALSE, data |-> None]
  ELSE IF rsp.rspvalid # 0 \/ rsp.rsperror # 0
  THEN [call |-> NoCall,
        sig |-> [sig EXCEPT !.reqvalid = 0, !.reqstrobe = 0],
        asserted |-> FALSE, returned |-> TRUE, data |-> rsp.rspdata]
  ELSE [call |-> [c EXCEPT !.stage = 2], sig |-> sig, asserted |-> FALSE,
        returned |-> FALSE, data |-> None]

\* read that gives up at the first edge at which it sees no response
master_read_edge_timeout(t, c, sig, rsp) ==
  IF c.stage = 0
  THEN [call |-> [c EXCEPT !.stage = 1],
        sig |-> [sig EXCEPT !.reqaddr = c.address, !.reqwrite = 0, !.reqvalid = 1,
                            !.reqstrobe = default_strobe(t)],
        asserted |-> TRUE, returned |-> FALSE, data |-> None]
  ELSE IF c.stage = 1
  THEN [call |-> [c EXCEPT !.stage = 2],
        sig |-> [sig EXCEPT !.reqvalid = 0, !.reqstrobe = 0],
        asserted |-> FALSE, returned |-> FALSE, data |-> None]
  ELSE [call |-> NoCall, sig |-> sig, asserted |-> FALSE, returned |-> TRUE,
        data |-> rsp.rspdata]

\* read resumed by a rising edge of the clock; reqaddr.value.binstr = ... leaves
\* the signal as it is
master_read_edge(t, c, sig, rsp) ==
  IF c.stage = 0
  THEN [call |-> [c EXCEPT !.stage = 1],
        sig |-> [sig EXCEPT !.reqaddr = c.address, !.reqwrite = 0, !.reqvalid = 1,
                            !.reqstrobe = default_strobe(t)],
        asserted |-> TRUE, returned |-> FALSE, data |-> None]
  ELSE LET off == IF c.stage = 1
                  THEN [sig EXCEPT !.reqvalid = 0, !.reqstrobe = 0]
                  ELSE sig
       IN IF rsp.rspvalid # 0 \/ rsp.rsperror # 0
          THEN [call |-> NoCall, sig |-> off, asserted |-> FALSE, returned |-> TRUE,
                data |-> rsp.rspdata]
          ELSE [call |-> [c EXCEPT !.stage = 2], sig |-> off, asserted |-> FALSE,
                returned |-> FALSE, data |-> None]

\* the master at a rising edge of the clock
master_edge(t, c, sig, rsp) ==
  CASE c.kind = "write" -> master_write_edge(t, c, sig)
    [] c.kind = "read" -> master_read_edge(t, c, sig, rsp)
    [] c.kind = "none" ->
         [call |-> c, sig |-> sig, asserted |-> FALSE, returned |-> FALSE, data |-> None]

(***************************************************************************)
(* tb/driver.py: Driver                                                    *)
(***************************************************************************)
NoDriver ==
  [state |-> "none", data_width |-> 0, byte_align |-> 0, block_width |-> 0, digest_width |-> 0,
   block_addrs |-> << >>, digest_addrs |-> << >>]

\* Driver(data_width, byte_align, block_width, digest_width)
Driver__init__(data_width, byte_align, block_width, dig_width) ==
  LET b == range(block_width, data_width)
      d == range(dig_width, data_width)
  IN IF \E i \in 1..Len(b) : align_raises(b[i], byte_align)
     THEN [NoDriver EXCEPT !.state = "ZeroDivisionError"]
     ELSE [state |-> "ok", data_width |-> data_width, byte_align |-> byte_align,
           block_width |-> block_width, digest_width |-> dig_width,
           block_addrs |-> [i \in 1..Len(b) |-> align(b[i], byte_align) + BLOCK_ADDR] \o << >>,
           digest_addrs |-> [i \in 1..Len(d) |-> align(d[i], byte_align) + DIGEST_ADDR] \o << >>]

NoOp == [kind |-> "none", index |-> 0, block |-> << >>]

\* data = (block >> (self.data_width * index)) & mask
write_block_data_unshifted(drv, block, index) == Norm(Mask(block, drv.data_width))

write_block_data(drv, block, index) ==
  Norm(Mask(Shr(block, drv.data_width * index), drv.data_width))

\* block |= data << (self.data_width * index)
read_block_or(drv, block, data, index) == Norm(Or(block, Shl(data, drv.data_width * index)))

\* return ctrlreg & 0x10
read_valid_return(ctrlreg) == Norm(And(ctrlreg, << 16 >>))

\* the valid bit taken for the hold bit
read_hold_return_bit4(ctrlreg) == Norm(And(ctrlreg, << 16 >>))

\* return ctrlreg & 0x8
read_hold_return(ctrlreg) == Norm(And(ctrlreg, << 8 >>))

\* the first call to the master of an operation of the Driver
driver_first(drv, kind, block) ==
  CASE kind = "write_block" ->
         master_write(drv.block_addrs[1], write_block_data(drv, block, 0), NoStrobe)
    [] kind = "read_block" -> master_read(drv.block_addrs[1])
    [] kind = "read_digest" -> master_read(drv.digest_addrs[1])
    [] kind = "enable" -> master_write(CTRL_ADDR, << 1 >>, NoStrobe)
    [] kind = "disable" -> master_write(CTRL_ADDR, << >>, NoStrobe)
    [] kind = "reset" -> master_write(CTRL_ADDR, << 2 >>, NoStrobe)
    [] kind = "read_hold" -> master_read(CTRL_ADDR)
    [] kind = "read_valid" -> master_read(CTRL_ADDR)

\* the caller of the master resumed by the return of the call c with data:
\* the next call of the operation, or the return of the operation
driver_next(drv, d, c, data) ==
  LET more(addrs) == d.index + 1 < Len(addrs)
      next == [d EXCEPT !.index = d.index + 1]
      acc == read_block_or(drv, d.block, data, d.index)
      finish(v) == [done |-> TRUE, dop |-> NoOp, call |-> NoCall,
                 entry |-> [kind |-> d.kind, address |-> 0, value |-> d.block,
                            strobe |-> NoStrobe, ret |-> v]]
      goon(dd, cc) == [done |-> FALSE, dop |-> dd, call |-> cc,
                       entry |-> [kind |-> "none", address |-> 0, value |-> << >>,
                                  strobe |-> NoStrobe, ret |-> None]]
  IN CASE d.kind = "none" ->
            [done |-> TRUE, dop |-> NoOp, call |-> NoCall,
             entry |-> [kind |-> c.kind, address |-> c.address, value |-> c.value,
                        strobe |-> c.strobe, ret |-> data]]
       [] d.kind = "write_block" ->
            IF more(drv.block_addrs)
            THEN goon(next, master_write(drv.block_addrs[next.index + 1],
                                         write_block_data(drv, d.block, next.index), NoStrobe))
            ELSE finish(None)
       [] d.kind = "read_block" ->
            IF more(drv.block_addrs)
            THEN goon([next EXCEPT !.block = acc], master_read(drv.block_addrs[next.index + 1]))
            ELSE [finish(acc) EXCEPT !.entry.value = << >>]
       [] d.kind = "read_digest" ->
            IF more(drv.digest_addrs)
            THEN goon([next EXCEPT !.block = acc], master_read(drv.digest_addrs[next.index + 1]))
            ELSE [finish(acc) EXCEPT !.entry.value = << >>]
       [] d.kind \in { "enable", "disable", "reset" } -> finish(None)
       [] d.kind = "read_hold" -> finish(read_hold_return(data))
       [] d.kind = "read_valid" -> finish(read_valid_return(data))

(***************************************************************************)
(* States and steps of the bus                                             *)
(***************************************************************************)
\* operations made on one master
MaxOps == 3

\* operations made on one Driver
MaxDriverOps == 2

NoTop == [DataWidth |-> 0, ByteAlign |-> 0, BlockWidth |-> 0, DigestWidth |-> 0]

Top(dw, ba, bw, gw) == [DataWidth |-> dw, ByteAlign |-> ba, BlockWidth |-> bw, DigestWidth |-> gw]

\* the combinations of parameters the tests run
SupportedTops ==
  { Top(dw, 1, bw, gw) : dw \in { 8, 16, 32, 64, 128 }, bw \in { 512, 1024 },
                         gw \in DigestWidths }
    \cup { Top(dw, 0, bw, gw) : dw \in { 32, 64, 128 }, bw \in { 512, 1024 },
                                gw \in DigestWidths }

BusTops == { Top(8, 1, 512, 256), Top(32, 1, 512, 256), Top(32, 0, 512, 224), Top(64, 0, 1024, 256) }

DriverTops ==
  { Top(8, 1, 512, 256), Top(32, 1, 512, 224), Top(128, 1, 1024, 512), Top(32, 0, 512, 256) }

\* a value of width bits with no two equal bytes next to each other, and all ones
Pattern(width) == Norm(Mask([i \in 1..((width + 15) \div 16) |-> ((i * 4951) + 257) % Base], width))

Ones(width) == Norm(Mask([i \in 1..((width + 15) \div 16) |-> Base - 1], width))

BusIdle ==
  /\ top = NoTop
  /\ driver = NoDriver
  /\ lock = FALSE
  /\ call = NoCall
  /\ dop = NoOp
  /\ reqaddr = 0
  /\ reqdata = << >>
  /\ reqwrite = 0
  /\ reqvalid = 0
  /\ reqstrobe = 0
  /\ rspready = 0
  /\ rspvalid = 0
  /\ rsperror = 0
  /\ rspdata = << >>
  /\ ctrl = << >>
  /\ block_regs = << >>
  /\ digest_i = << >>
  /\ hist = << >>
  /\ txlog = << >>
  /\ n_rsp = 0
  /\ coros = << >>

\* the design out of reset, its inputs driven by init(dut), no master yet
BusInit(tops) ==
  /\ top \in tops
  /\ driver = NoDriver
  /\ lock = FALSE
  /\ call = NoCall
  /\ dop = NoOp
  /\ reqaddr = 0
  /\ reqdata = << >>
  /\ reqwrite = 0
  /\ reqvalid = 0
  /\ reqstrobe = 0
  /\ rspready = 0
  /\ rspvalid = 0
  /\ rsperror = 0
  /\ rspdata = << >>
  /\ ctrl = << >>
  /\ block_regs = [i \in 1..((top.BlockWidth + top.DataWidth - 1) \div top.DataWidth) |-> << >>]
                    \o << >>
  /\ digest_i = Pattern(top.DigestWidth)
  /\ hist = << >>
  /\ txlog = << >>
  /\ n_rsp = 0
  /\ coros = << >>

\* Master(dut, name=None, clock=dut.clk_i, mapping=MAPPING).  bus.reqdata,
\* bus.reqaddr and bus.reqstrobe are not driven: "handle.value.binstr = ..."
\* assigns to the value object read from the signal, not to the signal.
MasterConstruct ==
  /\ top # NoTop
  /\ rspready = 0
  /\ reqwrite' = 0
  /\ reqvalid' = 0
  /\ rspready' = 1
  /\ UNCHANGED << top, driver, lock, call, dop, reqaddr, reqdata, reqstrobe, rspvalid, rsperror,
                  rspdata, ctrl, block_regs, digest_i, hist, txlog, n_rsp, coros >>

\* Driver(entity=dut, data_width=DATA_WIDTH, byte_align=BYTE_ALIGN, ...)
DriverConstruct ==
  /\ top # NoTop
  /\ rspready = 0
  /\ driver.state = "none"
  /\ driver' = Driver__init__(top.DataWidth, top.ByteAlign, top.BlockWidth, top.DigestWidth)
  /\ reqwrite' = 0
  /\ reqvalid' = 0
  /\ rspready' = 1
  /\ UNCHANGED << top, lock, call, dop, reqaddr, reqdata, reqstrobe, rspvalid, rsperror,
                  rspdata, ctrl, block_regs, digest_i, hist, txlog, n_rsp, coros >>

\* a call to the master begins: the lock is taken, the log starts again
Begin(c, d) ==
  /\ ~lock
  /\ call.kind = "none"
  /\ lock' = acquire_lock(lock)
  /\ call' = c
  /\ dop' = d
  /\ txlog' = << >>
  /\ n_rsp' = 0
  /\ UNCHANGED << top, driver, reqaddr, reqdata, reqwrite, reqvalid, reqstrobe, rspready,
                  rspvalid, rsperror, rspdata, ctrl, block_regs, digest_i, hist, coros >>

\* master.read(address=address)
Read(address) ==
  /\ rspready = 1
  /\ driver.state = "none"
  /\ Len(hist) < MaxOps
  /\ Begin(master_read(address), NoOp)

\* master.write(address=address, value=value, strobe=strobe)
Write(address, value, strobe) ==
  /\ rspready = 1
  /\ driver.state = "none"
  /\ Len(hist) < MaxOps
  /\ Begin(master_write(address, value, strobe), NoOp)

\* driver.write_block(block), driver.read_block(), driver.read_digest(), driver.enable(),
\* driver.disable(), driver.reset(), driver.read_hold(), driver.read_valid()
DriverOp(kind, block) ==
  /\ driver.state = "ok"
  /\ Len(hist) < MaxDriverOps
  /\ Begin(driver_first(driver, kind, block),
           [kind |-> kind, index |-> 0,
            block |-> IF kind = "write_block" THEN block ELSE << >>])

WriteBlock(block) == DriverOp("write_block", block)

ReadBlock == DriverOp("read_block", << >>)

ReadDigest == DriverOp("read_digest", << >>)

Enable == DriverOp("enable", << >>)

Disable == DriverOp("disable", << >>)

Reset == DriverOp("reset", << >>)

ReadHold == DriverOp("read_hold", << >>)

ReadValid == DriverOp("read_valid", << >>)

\* a rising edge of the clock: the coroutine waiting for it runs until it
\* waits again, the slave samples the request and registers its response
Tick ==
  /\ top # NoTop
  /\ \E m \in { master_edge(top, call,
                            [reqaddr |-> reqaddr, reqdata |-> reqdata, reqwrite |-> reqwrite,
                             reqvalid |-> reqvalid, reqstrobe |-> reqstrobe],
                            [rspvalid |-> rspvalid, rsperror |-> rsperror, rspdata |-> rspdata]) },
        s \in { slave_edge(top, [ctrl |-> ctrl, block_regs |-> block_regs, digest_i |-> digest_i],
                           [reqaddr |-> reqaddr, reqdata |-> reqdata, reqwrite |-> reqwrite,
                            reqvalid |-> reqvalid, reqstrobe |-> reqstrobe]) } :
       /\ reqaddr' = m.sig.reqaddr
       /\ reqdata' = m.sig.reqdata
       /\ reqwrite' = m.sig.reqwrite
       /\ reqvalid' = m.sig.reqvalid
       /\ reqstrobe' = m.sig.reqstrobe
       /\ rspvalid' = s.rspvalid
       /\ rsperror' = s.rsperror
       /\ rspdata' = s.rspdata
       /\ ctrl' = s.ctrl
       /\ block_regs' = s.block_regs
       /\ n_rsp' = n_rsp + (IF reqvalid = 1 THEN 1 ELSE 0)
       /\ IF m.returned
          THEN \E n \in { driver_next(driver, dop, call, m.data) } :
                 /\ call' = n.call
                 /\ dop' = n.dop
                 /\ lock' = (IF n.done THEN release_lock(lock) ELSE acquire_lock(release_lock(lock)))
                 /\ hist' = (IF n.done THEN Append(hist, n.entry) ELSE hist)
                 /\ txlog' = (IF call.kind = "read"
                              THEN [txlog EXCEPT ![Len(txlog)].data = m.data]
                              ELSE txlog)
          ELSE /\ call' = m.call
               /\ dop' = dop
               /\ lock' = lock
               /\ hist' = hist
               /\ txlog' = (IF m.asserted
                            THEN Append(txlog, [address |-> m.sig.reqaddr, write |-> m.sig.reqwrite,
                                                data |-> IF m.sig.reqwrite = 1 THEN m.sig.reqdata
                                                         ELSE None])
                            ELSE txlog)
  /\ UNCHANGED << top, driver, rspready, digest_i, coros >>

\* coroutines that call the master concurrently
MaxCoros == 2

\* await self._acquire_lock() returns at once
lock_never_blocks(l) == FALSE

\* await self._acquire_lock() waits while the lock is held
lock_blocks(l) == l

\* a coroutine calls read or write (the call c up to its first await): it
\* waits for the lock if it is held, else it takes it and waits for the clock
Start(c) ==
  /\ rspready = 1
  /\ driver.state = "none"
  /\ Len(coros) < MaxCoros
  /\ IF lock_blocks(lock)
     THEN /\ coros' = Append(coros, [call |-> c, at |-> "lock"])
          /\ lock' = lock
     ELSE /\ coros' = Append(coros, [call |-> c, at |-> "edge"])
          /\ lock' = acquire_lock(lock)
  /\ UNCHANGED << top, driver, call, dop, reqaddr, reqdata, reqwrite, reqvalid, reqstrobe,
                  rspready, rspvalid, rsperror, rspdata, ctrl, block_regs, digest_i, hist,
                  txlog, n_rsp >>

\* the coroutines waiting for the rising edge resumed one after the other,
\* from coroutine i on: each drives the signals the one before left, all
\* sample the response signals as they were before the edge
RECURSIVE resume(_, _, _, _, _, _)
resume(t, cs, i, sig, rsp, l) ==
  LET go(m) ==
        IF m.returned
        THEN resume(t, [cs EXCEPT ![i].at = "returned"], i + 1, m.sig, rsp, release_lock(l))
        ELSE resume(t, [cs EXCEPT ![i].call = m.call], i + 1, m.sig, rsp, l)
  IN IF i > Len(cs) THEN [coros |-> cs, sig |-> sig, lock |-> l]
     ELSE IF cs[i].at # "edge" THEN resume(t, cs, i + 1, sig, rsp, l)
     ELSE go(master_edge(t, cs[i].call, sig, rsp))

\* the coroutines waiting for the lock resumed after a release, from
\* coroutine i on: the first one takes the lock and waits for the clock
RECURSIVE wake(_, _, _)
wake(cs, i, l) ==
  IF i > Len(cs) THEN [coros |-> cs, lock |-> l]
  ELSE IF cs[i].at = "lock" /\ ~lock_blocks(l)
  THEN wake([cs EXCEPT ![i].at = "edge"], i + 1, acquire_lock(l))
  ELSE wake(cs, i + 1, l)

\* a rising edge of the clock with concurrent callers of the master, the
\* slave registering s
ConcEdge(s) ==
  /\ top # NoTop
  /\ \E r \in { resume(top, coros, 1,
                        [reqaddr |-> reqaddr, reqdata |-> reqdata, reqwrite |-> reqwrite,
                         reqvalid |-> reqvalid, reqstrobe |-> reqstrobe],
                        [rspvalid |-> rspvalid, rsperror |-> rsperror, rspdata |-> rspdata],
                        lock) } :
       \E w \in { wake(r.coros, 1, r.lock) } :
         /\ reqaddr' = r.sig.reqaddr
         /\ reqdata' = r.sig.reqdata
         /\ reqwrite' = r.sig.reqwrite
         /\ reqvalid' = r.sig.reqvalid
         /\ reqstrobe' = r.sig.reqstrobe
         /\ rspvalid' = s.rspvalid
         /\ rsperror' = s.rsperror
         /\ rspdata' = s.rspdata
         /\ ctrl' = s.ctrl
         /\ block_regs' = s.block_regs
         /\ coros' = w.coros
         /\ lock' = w.lock
  /\ UNCHANGED << top, driver, call, dop, rspready, digest_i, hist, txlog, n_rsp >>

ConcTick ==
  ConcEdge(slave_edge(top, [ctrl |-> ctrl, block_regs |-> block_regs, digest_i |-> digest_i],
                      [reqaddr |-> reqaddr, reqdata |-> reqdata, reqwrite |-> reqwrite,
                       reqvalid |-> reqvalid, reqstrobe |-> reqstrobe]))

\* a slave that asserts neither rspvalid nor rsperror, whatever the request
slave_silent(t, s, rq) ==
  [ctrl |-> s.ctrl, block_regs |-> s.block_regs, rspvalid |-> 0, rsperror |-> 0,
   rspdata |-> << >>]

\* a rising edge of the clock at which the slave does not respond
SilentTick ==
  ConcEdge(slave_silent(top, [ctrl |-> ctrl, block_regs |-> block_regs, digest_i |-> digest_i],
                        [reqaddr |-> reqaddr, reqdata |-> reqdata, reqwrite |-> reqwrite,
                         reqvalid |-> reqvalid, reqstrobe |-> reqstrobe]))

\* calls the coroutines make
ConcCalls(t) ==
  { master_read(CTRL_ADDR), master_read(BLOCK_ADDR), master_read(768),
    master_write(CTRL_ADDR, << 5 >>, NoStrobe),
    master_write(BLOCK_ADDR, Pattern(t.DataWidth), 1) }

\* calls the coroutines make on a slave that may not respond
LiveCalls(t) ==
  { master_read(CTRL_ADDR), master_read(BLOCK_ADDR), master_read(768),
    master_write(768, Ones(t.DataWidth), NoStrobe) }

\* addresses, values and strobes of the requests made on the master
BusAddrs == { 0, 1, 256, 257, 260, 320, 512, 768 }

CtrlValues == { << 1 >>, << 2 >>, << 5 >>, << 7 >> }

Strobes(t) == { NoStrobe, 0, 1, default_strobe(t) - 1 }

BusRequest ==
  \/ \E address \in BusAddrs : Read(address)
  \/ \E value \in CtrlValues, strobe \in Strobes(top) : Write(CTRL_ADDR, value, strobe)
  \/ \E strobe \in Strobes(top) : Write(BLOCK_ADDR, Pattern(top.DataWidth), strobe)
  \/ \E address \in BusAddrs \ { CTRL_ADDR } : Write(address, Ones(top.DataWidth), NoStrobe)

(***************************************************************************)
(* tb/test_tops.py: the scenarios that drive the core through its          *)
(* registers, as the sequence of calls they make on the Driver             *)
(***************************************************************************)
VARIABLES
  scen,     \* the scenario running: its kind, len(model.blocks), cycle, position, core_hold,
            \* core_done and the number of polls that found no status bit
  oplog     \* the calls made on the Driver, in order, with the block and the value returned

scenVars == << scen, oplog >>

\* blocks of a random message
MaxBlocks == 3

\* polls of one block that find no status bit set
MaxPolls == 2

NoScenario ==
  [kind |-> "none", nblocks |-> 0, cycle |-> 0, pc |-> "none", core_hold |-> << >>,
   core_done |-> << >>, polls |-> 0]

ScenIdle ==
  /\ scen = NoScenario
  /\ oplog = << >>

\* the calls the scenario makes are recorded with the block they are made for
logged(op, r) == Append(oplog, [op |-> op, cycle |-> scen.cycle, ret |-> r])

\* the test starts: the Driver is built and the model has processed the message
RunScenario(kind, nblocks) ==
  /\ scen.kind = "none"
  /\ scen' = [NoScenario EXCEPT !.kind = kind, !.nblocks = nblocks, !.pc = "write_block"]
  /\ oplog' = << >>

\* await driver.write_block(block=block)
ScenWriteBlock ==
  /\ scen.pc = "write_block"
  /\ oplog' = logged("write_block", None)
  /\ scen' = [scen EXCEPT !.pc = "enable", !.polls = 0]

\* await driver.enable(); the polling loop begins
ScenEnable ==
  /\ scen.pc = "enable"
  /\ oplog' = logged("enable", None)
  /\ scen' = [scen EXCEPT !.pc = IF scen.kind = "run_one_block_message"
                                 THEN "read_valid" ELSE "read_hold"]

\* core_hold = await driver.read_hold(), the core reporting hold or not
ScenReadHold(r) ==
  /\ scen.pc = "read_hold"
  /\ oplog' = logged("read_hold", r)
  /\ scen' = [scen EXCEPT !.core_hold = r, !.pc = "read_valid"]

\* if core_done: break (one block), if core_hold or core_done: break (the others)
polling_breaks(kind, core_hold, core_done) ==
  IF kind = "run_one_block_message" THEN core_done # << >>
  ELSE (core_hold # << >> \/ core_done # << >>)

\* core_done = await driver.read_valid(), the core reporting valid or not; the
\* loop is left or polls again after a clock edge; after the loop of the last
\* block comes read_digest
ScenReadValid(r) ==
  /\ scen.pc = "read_valid"
  /\ oplog' = logged("read_valid", r)
  /\ IF polling_breaks(scen.kind, scen.core_hold, r)
     THEN scen' = [scen EXCEPT !.core_done = r,
                               !.cycle = IF scen.cycle + 1 < scen.nblocks
                                         THEN scen.cycle + 1 ELSE scen.cycle,
                               !.pc = IF scen.cycle + 1 < scen.nblocks
                                      THEN "write_block" ELSE "read_digest"]
     ELSE /\ scen.polls < MaxPolls
          /\ scen' = [scen EXCEPT !.core_done = r, !.polls = scen.polls + 1,
                                  !.pc = IF scen.kind = "run_one_block_message"
                                         THEN "read_valid" ELSE "read_hold"]

\* digest = await driver.read_digest()
ScenReadDigest ==
  /\ scen.pc = "read_digest"
  /\ oplog' = logged("read_digest", None)
  /\ scen' = [scen EXCEPT !.pc = "reset"]

\* await driver.reset()
ScenReset ==
  /\ scen.pc = "reset"
  /\ oplog' = logged("reset", None)
  /\ scen' = [scen EXCEPT !.pc = "done"]

(***************************************************************************)
(* Specifications                                                          *)
(***************************************************************************)
vars == << hashVars, padVars, lenVars, rotlVars, strobeVars, busVars, scenVars >>

InitHash == HashIdle /\ PadIdle /\ LenIdle /\ RotlIdle /\ StrobeIdle /\ BusIdle /\ ScenIdle

NextHash ==
  /\ \/ \E v \in { "sha1", "sha256" }, kw \in Keywords : Construct(v, kw)
     \/ \E dw \in DigestWidths \cup { 0, 160, 255, 1024 } : Construct512(dw)
     \/ \E message \in Messages : Process(message)
  /\ UNCHANGED << padVars, lenVars, rotlVars, strobeVars, busVars, scenVars >>

SpecHash == InitHash /\ [][NextHash]_vars

InitPad == HashIdle /\ PadInit /\ LenIdle /\ RotlIdle /\ StrobeIdle /\ BusIdle /\ ScenIdle

NextPad == PreProcessing /\ UNCHANGED << hashVars, lenVars, rotlVars, strobeVars, busVars, scenVars >>

SpecPad == InitPad /\ [][NextPad]_vars

\* the length field for each class and each message length
InitLen == HashIdle /\ PadIdle /\ LenInit /\ RotlIdle /\ StrobeIdle /\ BusIdle /\ ScenIdle

NextLen == LengthField /\ UNCHANGED << hashVars, padVars, rotlVars, strobeVars, busVars, scenVars >>

SpecLen == InitLen /\ [][NextLen]_vars

InitStrobe == HashIdle /\ PadIdle /\ LenIdle /\ RotlIdle /\ StrobeInit /\ BusIdle /\ ScenIdle

NextStrobe == SimStrobeWrite /\ UNCHANGED << hashVars, padVars, lenVars, rotlVars, busVars, scenVars >>

SpecStrobe == InitStrobe /\ [][NextStrobe]_vars

\* left_rotate for each input word and each position of the test
InitRotl == HashIdle /\ PadIdle /\ LenIdle /\ RotlInit /\ StrobeIdle /\ BusIdle /\ ScenIdle

NextRotl == LeftRotate /\ UNCHANGED << hashVars, padVars, lenVars, strobeVars, busVars, scenVars >>

SpecRotl == InitRotl /\ [][NextRotl]_vars

\* the Driver constructed for each supported combination of parameters
InitAddr == HashIdle /\ PadIdle /\ LenIdle /\ RotlIdle /\ StrobeIdle /\ BusInit(SupportedTops) /\ ScenIdle

NextAddr == DriverConstruct /\ UNCHANGED << hashVars, padVars, lenVars, rotlVars, strobeVars, scenVars >>

SpecAddr == InitAddr /\ [][NextAddr]_vars

\* reads and writes of single registers, as the tests of tb/interface make them
InitBus == HashIdle /\ PadIdle /\ LenIdle /\ RotlIdle /\ StrobeIdle /\ BusInit(BusTops) /\ ScenIdle

NextBus ==
  /\ \/ MasterConstruct
     \/ BusRequest
     \/ Tick
  /\ UNCHANGED << hashVars, padVars, lenVars, rotlVars, strobeVars, scenVars >>

SpecBus == InitBus /\ [][NextBus]_vars

\* reads and writes made by coroutines that run concurrently
InitConc == HashIdle /\ PadIdle /\ LenIdle /\ RotlIdle /\ StrobeIdle /\ BusInit(BusTops) /\ ScenIdle

NextConc ==
  /\ \/ MasterConstruct
     \/ \E c \in ConcCalls(top) : Start(c)
     \/ ConcTick
  /\ UNCHANGED << hashVars, padVars, lenVars, rotlVars, strobeVars, scenVars >>

SpecConc == InitConc /\ [][NextConc]_vars

\* the same with a slave that may leave a request without response, and a
\* clock that keeps ticking
LiveTick ==
  /\ \/ ConcTick
     \/ SilentTick
  /\ UNCHANGED << hashVars, padVars, lenVars, rotlVars, strobeVars, scenVars >>

NextLive ==
  \/ /\ \/ MasterConstruct
        \/ \E c \in LiveCalls(top) : Start(c)
     /\ UNCHANGED << hashVars, padVars, lenVars, rotlVars, strobeVars, scenVars >>
  \/ LiveTick

SpecLive == InitConc /\ [][NextLive]_vars /\ WF_vars(LiveTick)

\* the operations of the Driver
InitDriver == HashIdle /\ PadIdle /\ LenIdle /\ RotlIdle /\ StrobeIdle /\ BusInit(DriverTops) /\ ScenIdle

NextDriver ==
  /\ \/ DriverConstruct
     \/ \E block \in { Pattern(top.BlockWidth), Ones(top.BlockWidth) } : WriteBlock(block)
     \/ ReadBlock
     \/ ReadDigest
     \/ Enable
     \/ Disable
     \/ Reset
     \/ ReadHold
     \/ ReadValid
     \/ Tick
  /\ UNCHANGED << hashVars, padVars, lenVars, rotlVars, strobeVars, scenVars >>

SpecDriver == InitDriver /\ [][NextDriver]_vars

\* the core sets the read-only bits hold (bit 3) and valid (bit 4) of the
\* control register
CoreStatus(hold, valid) ==
  /\ top # NoTop
  /\ ctrl' = Norm(Or(And(ctrl, << CtrlMask >>), << (8 * hold) + (16 * valid) >>))
  /\ ctrl' # ctrl
  /\ UNCHANGED << top, driver, lock, call, dop, reqaddr, reqdata, reqwrite, reqvalid, reqstrobe,
                  rspready, rspvalid, rsperror, rspdata, block_regs, digest_i, hist, txlog,
                  n_rsp, coros >>

\* the operations of the Driver on the control register, the core changing
\* the status bits at any time
NextStatus ==
  /\ \/ DriverConstruct
     \/ Enable
     \/ Disable
     \/ Reset
     \/ ReadHold
     \/ ReadValid
     \/ \E hold, valid \in { 0, 1 } : CoreStatus(hold, valid)
     \/ Tick
  /\ UNCHANGED << hashVars, padVars, lenVars, rotlVars, strobeVars, scenVars >>

SpecStatus == InitDriver /\ [][NextStatus]_vars

(***************************************************************************)

\* the register-driven scenarios, the core reporting hold and valid as it may
InitScen == HashIdle /\ PadIdle /\ LenIdle /\ RotlIdle /\ StrobeIdle /\ BusIdle /\ ScenIdle

NextScen ==
  /\ \/ RunScenario("run_one_block_message", 1)
     \/ RunScenario("run_two_block_message", 2)
     \/ \E n \in 1..MaxBlocks : RunScenario("run_random_message", n)
     \/ ScenWriteBlock
     \/ ScenEnable
     \/ \E r \in { read_hold_return(<< >>), read_hold_return(<< 8 >>) } : ScenReadHold(r)
     \/ \E r \in { read_valid_return(<< >>), read_valid_return(<< 16 >>) } : ScenReadValid(r)
     \/ ScenReadDigest
     \/ ScenReset
  /\ UNCHANGED << hashVars, padVars, lenVars, rotlVars, strobeVars, busVars >>

SpecScen == InitScen /\ [][NextScen]_vars

(* Properties of the hash models                                           *)
(***************************************************************************)
\* FIPS 180-4 digests of "abc"
abc_digest(v, dw) ==
  CASE v = "sha1" -> "a9993e364706816aba3e25717850c26c9cd0d89d"
    [] v = "sha256" -> "ba7816bf8f01cfea414140de5dae2223b00361a396177a9cb410ff61f20015ad"
    [] v = "sha512" /\ dw = 512 ->
         "ddaf35a193617abacc417349ae20413112e6fa4e89a97ea20a9eeee64b55d39a"
           \o "2192992a274fc1a836ba3c23a3feebbd454d4423643ce80e2a9ac94fa54ca49f"
    [] v = "sha512" /\ dw = 384 ->
         "cb00753f45a35e8bb5a03d699ac65007272c32ab0eded163"
           \o "1a8b605a43ff5bed8086072ba1e7cc2358baeca134c825a7"
    [] v = "sha512" /\ dw = 256 ->
         "53048e2681941ef99b2e29b76b4c7dabe4c2d0c634fc6d46e0e2f13107e7af23"
    [] v = "sha512" /\ dw = 224 ->
         "4634270f707b6a54daae7530460842e20e37ed265ceee9a43e8924aa"

\* C1: on a fresh instance process("abc") returns the FIPS 180-4 digest of
\* "abc" for sha1, sha256 and sha512 with each digest width, and digest()
\* called afterwards returns the same string.
C1_AbcDigest ==
  (calls = 1 /\ processed = << msg_abc >>) =>
    /\ ret = abc_digest(variant, digest_width)
    /\ digest(variant, h, digest_width) = ret

C1_Witness ==
  /\ calls = 1
  /\ processed = << msg_abc >>
  /\ variant = "sha512"
  /\ digest_width = 384
  /\ ret = abc_digest("sha512", 384)

\* C2: _pre_processing returns message || 0x80 || Z zero bytes || length
\* field, where the field has 8 bytes and blocks 64 bytes for sha1 and
\* sha256, 16 and 128 for sha512; the total is a multiple of the block size,
\* Z is non-negative and below the block size (hence the smallest such Z),
\* and the message is an unchanged prefix.
C2_Padding ==
  pad_done =>
    LET L == Len(pad_message)
        size == IF pad_variant = "sha512" THEN 128 ELSE 64
        field == IF pad_variant = "sha512" THEN 16 ELSE 8
        Z == Len(pad_out) - L - 1 - field
    IN /\ Z >= 0
       /\ Z < size
       /\ Len(pad_out) % size = 0
       /\ SubSeq(pad_out, 1, L) = pad_message
       /\ pad_out[L + 1] = 128
       /\ \A i \in (L + 2)..(L + 1 + Z) : pad_out[i] = 0

C2_Witness ==
  /\ pad_done
  /\ pad_variant = "sha512"
  /\ Len(pad_message) = 112
  /\ Len(pad_out) = 256
  /\ pad_out[113] = 128

\* the padded messages of all process calls made, one after the other
RECURSIVE all_blocks(_, _, _)
all_blocks(v, msgs, i) ==
  IF i > Len(msgs) THEN << >>
  ELSE pre_processing(v, msgs[i]) \o all_blocks(v, msgs, i + 1)

\* the digest after each block of bin, from the hash value hh
RECURSIVE digests_after(_, _, _, _, _)
digests_after(v, dw, hh, bin, acc) ==
  IF Len(bin) = 0 \/ Len(hh) = 0 THEN acc
  ELSE LET size == block_size(v)
           block == SubSeq(bin, 1, size)
           nh == CASE v = "sha1" -> sha1_process_block(hh, block)
                   [] v = "sha256" -> sha256_process_block(hh, block)
                   [] v = "sha512" -> sha512_process_block(hh, << >>, block).h
       IN digests_after(v, dw, nh, SubSeq(bin, size + 1, Len(bin)), Append(acc, digest(v, nh, dw)))

initial_h(v, dw) ==
  CASE v = "sha1" -> sha1_init_h
    [] v = "sha256" -> sha256_init_h
    [] v = "sha512" -> init_hash(dw)

\* C3: process appends one entry to _dbg_hash_values per block, entry i is
\* the digest after blocks 0..i, the last entry is the value returned, and
\* the two-block FIPS message gives the two SHA-1 digests stated.
C3_DbgHashValues ==
  (variant # "none") =>
    LET bin == all_blocks(variant, processed, 1)
    IN /\ Len(dbg_hash_values) = Len(bin) \div block_size(variant)
       /\ dbg_hash_values
            = digests_after(variant, digest_width, initial_h(variant, digest_width), bin, << >>)
       /\ (calls > 0 /\ Len(dbg_hash_values) > 0) =>
            dbg_hash_values[Len(dbg_hash_values)] = ret
       /\ (variant = "sha1" /\ processed = << msg_448 >>) =>
            dbg_hash_values = << "f4286818c37b27ae0408f581846771484a566572",
                                 "84983e441c3bd26ebaae4aa1f95129e5e54670f1" >>

C3_Witness ==
  /\ variant = "sha1"
  /\ processed = << msg_448 >>
  /\ Len(dbg_hash_values) = 2
  /\ dbg_hash_values[1] = "f4286818c37b27ae0408f581846771484a566572"
  /\ dbg_hash_values[2] = ret

(***************************************************************************)
(* Properties of sim_strobe_write                                          *)
(***************************************************************************)
\* byte lane b of x
ByteLane(x, b) == (Limb(x, (b \div 2) + 1) \div (IF b % 2 = 1 THEN 256 ELSE 1)) % 256

\* C4: byte lane b of the result of sim_strobe_write is the lane of the new
\* value if bit b of the strobe is set, else the lane of the previous value;
\* an all-ones strobe gives the new value, a zero strobe the previous one,
\* and no bit at or above 8 * databytes is set.
C4_StrobeWrite ==
  sw_done =>
    /\ \A b \in 0..(sw_databytes - 1) :
         ByteLane(sw_regval, b)
           = IF BitOf(sw_strobe, b) = 1 THEN ByteLane(sw_wrval, b) ELSE ByteLane(sw_prevval, b)
    /\ \A b \in sw_databytes..((2 * Len(sw_regval)) + 1) : ByteLane(sw_regval, b) = 0
    /\ (sw_strobe = (2^sw_databytes) - 1) =>
         \A b \in 0..7 : ByteLane(sw_regval, b) = ByteLane(sw_wrval, b)
    /\ (sw_strobe = 0) =>
         \A b \in 0..7 : ByteLane(sw_regval, b) = ByteLane(sw_prevval, b)

C4_Witness ==
  /\ sw_done
  /\ sw_databytes = 4
  /\ sw_strobe = 5
  /\ sw_prevval = W32(\H89AB, \HCDEF)
  /\ sw_wrval = W32(\H8001, \H7F10)
  /\ ByteLane(sw_regval, 0) = \H10
  /\ ByteLane(sw_regval, 1) = \HCD
  /\ ByteLane(sw_regval, 2) = \H01
  /\ ByteLane(sw_regval, 3) = \H89

(***************************************************************************)
(* Properties of the register bus                                          *)
(***************************************************************************)
Elements(s) == { s[i] : i \in 1..Len(s) }

\* the addresses the tests take for register addresses
RegisterAddrs(t) ==
  { CTRL_ADDR } \cup Elements(REGS_ADDR(t, BLOCK_ADDR, t.BlockWidth))
    \cup Elements(REGS_ADDR(t, DIGEST_ADDR, t.DigestWidth))

\* C5: a request to an address that is no register address of the control,
\* block or digest region gets a response with error set and valid clear and
\* changes no register; a request to a register address gets a response with
\* valid set and error clear; error and valid are never both set.
C5_Response ==
  [][ /\ (reqvalid = 1 /\ reqaddr \notin RegisterAddrs(top)) =>
           (rsperror' = 1 /\ rspvalid' = 0 /\ ctrl' = ctrl /\ block_regs' = block_regs)
      /\ (reqvalid = 1 /\ reqaddr \in RegisterAddrs(top)) => (rsperror' = 0 /\ rspvalid' = 1)
      /\ ~(rspvalid' = 1 /\ rsperror' = 1) ]_vars

\* a write to an address between two block register addresses was answered
C5_Witness ==
  /\ top = Top(32, 1, 512, 256)
  /\ Len(hist) = 2
  /\ hist[1].kind = "write" /\ hist[1].address = BLOCK_ADDR
  /\ hist[2].kind = "write" /\ hist[2].address = BLOCK_ADDR + 1
  /\ rsperror = 1
  /\ rspvalid = 0
  /\ block_regs[1] = Pattern(32)
  /\ block_regs[2] = << >>

IsCtrlWrite(e) == e.kind = "write" /\ e.address = CTRL_ADDR

IsCtrlRead(e) == e.kind = "read" /\ e.address = CTRL_ADDR

\* hist[j] is the next read of the control register after the write hist[i]
NextCtrlRead(i, j) ==
  /\ i < j
  /\ IsCtrlWrite(hist[i])
  /\ IsCtrlRead(hist[j])
  /\ \A k \in (i + 1)..(j - 1) : ~IsCtrlWrite(hist[k]) /\ ~IsCtrlRead(hist[k])

\* the write enables byte lane 0
LaneZero(e) == e.strobe = NoStrobe \/ (e.strobe >= 0 /\ BitOf(e.strobe, 0) = 1)

C7_BlockRoundTrip ==
  /\ driver.state # "ZeroDivisionError"
  /\ \A i \in 1..(Len(hist) - 1) :
       (hist[i].kind = "write_block" /\ hist[i + 1].kind = "read_block") =>
         hist[i + 1].ret = hist[i].value

\* C7, second half: a write to a block register with the default strobe
\* followed by a read of the same address returns the value written.
C7_SingleRegister ==
  \A i \in 1..(Len(hist) - 1) :
    (/\ hist[i].kind = "write" /\ hist[i].strobe = NoStrobe
     /\ hist[i].address \in Elements(REGS_ADDR(top, BLOCK_ADDR, top.BlockWidth))
     /\ hist[i + 1].kind = "read" /\ hist[i + 1].address = hist[i].address) =>
      hist[i + 1].ret = hist[i].value

\* the field an operation of the Driver goes through: its addresses, its width
FieldAddrs(kind) == IF kind = "read_digest" THEN driver.digest_addrs ELSE driver.block_addrs

FieldWidth(kind) == IF kind = "read_digest" THEN driver.digest_width ELSE driver.block_width

FieldOps == { "write_block", "read_block", "read_digest" }

\* the chunk data has data_width bits and they are bits
\* [i * data_width, (i + 1) * data_width) of field
IsChunk(data, field, i) ==
  LET n == driver.data_width \div 8
  IN /\ \A k \in 0..(n - 1) : ByteLane(data, k) = ByteLane(field, (i * n) + k)
     /\ \A k \in n..((2 * Len(data)) + 1) : ByteLane(data, k) = 0

\* the requests asserted so far by an operation of this kind, on this field
ChunkByChunk(kind, field, done) ==
  /\ Len(txlog) <= Len(FieldAddrs(kind))
  /\ \A j \in 1..Len(txlog) :
       /\ txlog[j].address = FieldAddrs(kind)[j]
       /\ (j > 1) => txlog[j].address > txlog[j - 1].address
       /\ txlog[j].write = (IF kind = "write_block" THEN 1 ELSE 0)
       /\ (j <= done) => IsChunk(txlog[j].data, field, j - 1)

\* C8: write_block, read_block and read_digest assert one request per chunk
\* of data_width bits of the field, in increasing address order, chunk i
\* carrying bits [i * data_width, (i + 1) * data_width); a request is asserted
\* only when the responses to all earlier requests have been produced and
\* are off the bus, so at most one transaction is outstanding.
C8_OneTransactionPerChunk ==
  /\ n_rsp <= Len(txlog)
  /\ Len(txlog) - n_rsp <= 1
  /\ (reqvalid = 1) => (rspvalid = 0 /\ rsperror = 0 /\ n_rsp = Len(txlog) - 1)
  /\ (dop.kind = "write_block") => ChunkByChunk(dop.kind, dop.block, Len(txlog))
  /\ (dop.kind \in { "read_block", "read_digest" }) =>
       (ChunkByChunk(dop.kind, dop.block, dop.index) /\ Len(txlog) <= dop.index + 1)
  /\ (dop.kind = "none" /\ Len(hist) > 0 /\ hist[Len(hist)].kind \in FieldOps) =>
       LET e == hist[Len(hist)]
       IN /\ Len(txlog) = (FieldWidth(e.kind) + driver.data_width - 1) \div driver.data_width
          /\ n_rsp = Len(txlog)
          /\ ChunkByChunk(e.kind, IF e.kind = "write_block" THEN e.value ELSE e.ret, Len(txlog))

\* a block written in 64 chunks, then read in 64 chunks
C8_Witness ==
  /\ top.DataWidth = 8
  /\ dop.kind = "none"
  /\ Len(hist) = 2
  /\ hist[1].kind = "write_block" /\ hist[1].value = Pattern(512)
  /\ hist[2].kind = "read_block"
  /\ Len(txlog) = 64
  /\ n_rsp = 64

\* C9: the i-th block register address of the Driver is
\* 0x100 + floor(i * data_width / step) and its i-th digest register address
\* 0x200 + floor(i * data_width / step), for i in 0..ceil(width / data_width) - 1,
\* with step = 8 when byte_align is true and 32 when it is false.
C9_DriverAddresses ==
  (driver.state # "none") =>
    LET step == IF top.ByteAlign # 0 THEN 8 ELSE 32
        nb == (top.BlockWidth + top.DataWidth - 1) \div top.DataWidth
        nd == (top.DigestWidth + top.DataWidth - 1) \div top.DataWidth
    IN /\ driver.state = "ok"
       /\ Len(driver.block_addrs) = nb
       /\ Len(driver.digest_addrs) = nd
       /\ \A i \in 0..(nb - 1) : driver.block_addrs[i + 1] = 256 + ((i * top.DataWidth) \div step)
       /\ \A i \in 0..(nd - 1) : driver.digest_addrs[i + 1] = 512 + ((i * top.DataWidth) \div step)

\* C10: for every supported combination block_addrs and digest_addrs of the
\* Driver are strictly increasing, every block address lies in
\* [0x100, 0x200), every digest address is at least 0x200, and the control
\* address, the block addresses and the digest addresses are disjoint.
C10_AddressesDisjoint ==
  (driver.state # "none") =>
    /\ driver.state = "ok"
    /\ \A i \in 2..Len(driver.block_addrs) : driver.block_addrs[i - 1] < driver.block_addrs[i]
    /\ \A i \in 2..Len(driver.digest_addrs) : driver.digest_addrs[i - 1] < driver.digest_addrs[i]
    /\ \A i \in 1..Len(driver.block_addrs) :
         driver.block_addrs[i] >= 256 /\ driver.block_addrs[i] < 512
    /\ \A i \in 1..Len(driver.digest_addrs) : driver.digest_addrs[i] >= 512
    /\ Elements(driver.block_addrs) \cap Elements(driver.digest_addrs) = { }
    /\ 0 \notin (Elements(driver.block_addrs) \cup Elements(driver.digest_addrs))

\* the slice of data_width bits of the digest that starts at bit offset
DigestSlice(t, dig, offset) == Norm(Mask(Shr(dig, offset), t.DataWidth))

\* C11: a read of the i-th digest register address a returns the data_width
\* bits of the digest starting at bit (a & 0xFF) << shift (shift 3 for byte
\* alignment, 5 for word alignment), that offset is i * data_width, and
\* Driver.read_digest, placing chunk i at bit i * data_width, returns the
\* digest.
C11_DigestReassembled ==
  (top # NoTop) =>
    LET regs == REGS_ADDR(top, DIGEST_ADDR, top.DigestWidth)
        shift == IF top.ByteAlign # 0 THEN 3 ELSE 5
    IN /\ \A i \in 1..Len(regs) :
            /\ ((regs[i] % 256) * (2^shift)) = (i - 1) * top.DataWidth
            /\ slave_digest_read(top, digest_i, regs[i])
                 = DigestSlice(top, digest_i, (regs[i] % 256) * (2^shift))
       /\ \A k \in 1..Len(hist) : (hist[k].kind = "read_digest") => hist[k].ret = digest_i

(***************************************************************************)
(* Properties of the length field                                          *)
(***************************************************************************)
\* the integer a sequence of bytes encodes, most significant byte first
BigEndian(bytes) ==
  Norm([i \in 1..(Len(bytes) \div 2) |->
          (bytes[Len(bytes) - (2 * i) + 1] * 256) + bytes[Len(bytes) - (2 * i) + 2]])

\* C12: the length field _pre_processing appends encodes the length of the
\* message in bits as a big-endian integer over the whole field, 8 bytes for
\* sha1 and sha256 and 16 bytes for sha512, for every length the field can
\* hold.
C12_LengthField ==
  len_done =>
    /\ Len(len_field) = (IF len_variant = "sha512" THEN 16 ELSE 8)
    /\ BigEndian(len_field) = len_ml

(***************************************************************************)
(* Properties of instances that process more than one message              *)
(***************************************************************************)
\* a new instance of the class of the instance under study, after process(message)
fresh_process(message) ==
  process([v |-> variant, dw |-> digest_width, h |-> initial_h(variant, digest_width),
           rc |-> << >>, blocks |-> << >>, dbg |-> << >>], message)

\* C13: the digest process(m) returns depends on m only, also for the
\* second message an instance processes, and blocks and round_computations
\* then describe the last message only.
C13_MessageOnly ==
  (Len(processed) > 0 /\ raised = "none") =>
    LET f == fresh_process(processed[Len(processed)])
    IN /\ ret = f.ret
       /\ blocks = f.st.blocks
       /\ round_computations = f.st.rc

(***************************************************************************)
(* Properties of the constructor of sha512                                 *)
(***************************************************************************)
\* C14: sha512(digest_width=dw) with dw outside {224, 256, 384, 512} fails
\* in the constructor, before any hash state exists, and returns no
\* instance; with dw in that set it never fails and returns an instance of
\* that width.
C14_UnsupportedWidth ==
  [][ \A dw \in { 0, 160, 224, 255, 256, 384, 512, 1024 } :
        Construct512(dw) =>
          IF dw \in { 224, 256, 384, 512 }
          THEN raised' = "none" /\ variant' = "sha512" /\ digest_width' = dw /\ Len(h') = 8
          ELSE /\ raised' = "AssertionError"
               /\ variant' = "none" /\ digest_width' = 0 /\ h' = << >>
               /\ dbg_hash_values' = << >> /\ round_computations' = << >> ]_vars

\* a construction that failed, and left nothing behind
C14_Witness ==
  /\ raised = "AssertionError"
  /\ variant = "none"
  /\ h = << >>
  /\ calls = 0

(***************************************************************************)
(* Properties of process on arbitrary messages                             *)
(***************************************************************************)
\* C15: process raises no exception, whatever the length and the characters
\* of the message: every call returns a digest string.
C15_NoException ==
  (variant \in Variants /\ calls > 0) => (raised = "none" /\ ret # "none")

(***************************************************************************)
(* Properties of sha512.digest                                             *)
(***************************************************************************)
\* hexadecimal digit k (from 0, most significant first) of the 64-bit word x
HexDigit(x, k) == (Limb(x, 4 - (k \div 4)) \div (16^(3 - (k % 4)))) % 16

\* the first n hexadecimal digits of the words of hh, 16 digits per word
FirstDigits(hh, n) == [k \in 1..n |-> HexDigit(hh[((k - 1) \div 16) + 1], (k - 1) % 16)] \o << >>

\* C16: sha512.digest() is the first digest_width / 4 hexadecimal characters
\* of the eight words of the hash state, 16 digits each, so it has exactly
\* digest_width / 4 characters for the widths 224, 256, 384 and 512; process
\* returns it; and each width starts from its own table.
C16_DigestWidth ==
  (variant = "sha512") =>
    /\ digest_width \in { 224, 256, 384, 512 }
    /\ Len(h) = 8
    /\ digest(variant, h, digest_width) = Str(FirstDigits(h, digest_width \div 4), 1)
    /\ Len(digest(variant, h, digest_width)) = digest_width \div 4
    /\ (calls > 0 /\ raised = "none") => ret = Str(FirstDigits(h, digest_width \div 4), 1)
    /\ (calls = 0) =>
         h[1] = CASE digest_width = 512 -> W64(\H6A09, \HE667, \HF3BC, \HC908)
                  [] digest_width = 384 -> W64(\HCBBB, \H9D5D, \HC105, \H9ED8)
                  [] digest_width = 256 -> W64(\H2231, \H2194, \HFC2B, \HF72C)
                  [] digest_width = 224 -> W64(\H8C3D, \H37C8, \H1954, \H4DA2)

\* the 56 characters of SHA-512/224 of "abc"
C16_Witness ==
  /\ variant = "sha512"
  /\ digest_width = 224
  /\ processed = << msg_abc >>
  /\ Len(ret) = 56
  /\ ret = Str(FirstDigits(h, 56), 1)

(***************************************************************************)
(* Properties of strobes wider than the data                               *)
(***************************************************************************)
\* C17: a write whose strobe has a bit set at or above position
\* data_width / 8 fails as a precondition violation: it is never carried
\* out with the extra strobe bits ignored, so no value is returned for it.
C17_MalformedStrobe == ~(sw_done /\ sw_strobe >= 2^sw_databytes)

(***************************************************************************)
(* Properties of what the master returns                                   *)
(***************************************************************************)
\* C18: what SimpleMaster.read returns for a transaction that ended with
\* rsperror set differs from what it returns for one that ended with
\* rspvalid set, and SimpleMaster.write to an address that is no register
\* address reports the error to its caller.
C18_ErrorReported ==
  /\ \A i \in 1..Len(hist), j \in 1..Len(hist) :
       (/\ hist[i].kind = "read" /\ hist[i].address \notin RegisterAddrs(top)
        /\ hist[j].kind = "read" /\ hist[j].address \in RegisterAddrs(top)) =>
         hist[i].ret # hist[j].ret
  /\ \A i \in 1..Len(hist) :
       (hist[i].kind = "write" /\ hist[i].address \notin RegisterAddrs(top)) =>
         hist[i].ret # None

(***************************************************************************)
(* Properties of round_computations                                        *)
(***************************************************************************)
\* index the tests read for hardware round counter r of block c
test_round_index(c, r) == (64 * c) + r

\* the entries the tests read for block c are the states s, s after one
\* round, ... up to the last round
RECURSIVE rounds_indexed(_, _, _)
rounds_indexed(s, w, c) ==
  /\ round_computations[test_round_index(c, s.i) + 1]
       = JoinSpaced(<< s.a, s.b, s.c, s.d, s.e, s.f, s.g, s.h >>, 1)
  /\ (s.i = 80 \/ rounds_indexed(sha512_round(s, w), w, c))

\* the same for block c and the blocks after it, from the hash value hh
RECURSIVE blocks_indexed(_, _)
blocks_indexed(hh, c) ==
  \/ c >= Len(blocks)
  \/ /\ rounds_indexed([i |-> 0, a |-> hh[1], b |-> hh[2], c |-> hh[3], d |-> hh[4],
                         e |-> hh[5], f |-> hh[6], g |-> hh[7], h |-> hh[8], rc |-> << >>],
                        sha512_extend([i \in 1..16 |-> unpack_Q(blocks[c + 1], i - 1)] \o << >>),
                        c)
     /\ blocks_indexed(sha512_process_block(hh, << >>, blocks[c + 1]).h, c + 1)

\* C19: after process of a message of N blocks round_computations holds the
\* accumulator words of every round of every block in block order, and the
\* entry the tests pair with round counter r of block c, at index 64 * c + r,
\* is the state of block c after r rounds.
C19_RoundIndex ==
  (variant = "sha512" /\ calls = 1 /\ Len(processed) = 1) =>
    /\ Len(round_computations) = 81 * Len(blocks)
    /\ blocks_indexed(init_hash(digest_width), 0)

\* C20: the SHA-256 model constructed with sha224=True or with digest_width=224
\* is an instance whose process("abc") returns the 56 characters of the
\* SHA-224 digest, and constructed without the option an instance whose
\* process("abc") returns the 64 characters of the SHA-256 digest.
C20_Sha224Option ==
  [][ \A kw \in Keywords :
        Construct("sha256", kw) =>
          /\ raised' = "none"
          /\ variant' = "sha256"
          /\ process([v |-> variant', dw |-> digest_width', h |-> h',
                      rc |-> round_computations', blocks |-> blocks',
                      dbg |-> dbg_hash_values'], msg_abc).ret
               = (IF kw \in { "sha224", "digest_width" }
                  THEN "23097d223405d8228642a477bda255b32aadbce4bda0b3f7e36c9da7"
                  ELSE abc_digest("sha256", 0)) ]_vars

(***************************************************************************)
(* Properties of left_rotate                                               *)
(***************************************************************************)
\* limb j (from 1) of the 32-bit word x rotated left by k positions, 0 <= k < 32:
\* bit p of the result is bit (p - k) mod 32 of x
RECURSIVE RotatedLimb(_, _, _, _)
RotatedLimb(x, k, j, b) ==
  IF b = 16 THEN 0
  ELSE (BitOf(Limb(x, (((((16 * (j - 1)) + b) + 32) - k) % 32) \div 16 + 1),
              ((((16 * (j - 1)) + b) + 32) - k) % 16) * (2^b))
       + RotatedLimb(x, k, j, b + 1)

RotatedLeft(x, k) == Norm(<< RotatedLimb(x, k, 1, 0), RotatedLimb(x, k, 2, 0) >>)

\* C21: for every 32-bit word x and every position n of 0, 16, 32, 48, 64,
\* left_rotate(x, n) returns a value below 2^32, equal to x rotated left by
\* n mod 32 bit positions.
C21_LeftRotate ==
  rotl_done =>
    /\ rotl_raised = "none"
    /\ Len(expected_rotl) <= 2
    /\ expected_rotl = RotatedLeft(in0, POSITION % 32)

(***************************************************************************)
(* Properties of the timing of the master                                  *)
(***************************************************************************)
\* C22: in every read and write the request is asserted, with the address,
\* the direction and the strobe of the call, on one rising edge and
\* deasserted on the next, so reqvalid is high for exactly one clock cycle
\* per transaction; read returns rspdata, and only after it has observed
\* rspvalid or rsperror on an edge after the one that deasserted the request.
C22_OneCycleRequest ==
  [][ /\ (reqvalid = 1) => (reqvalid' = 0 /\ call.stage = 1)
      /\ (reqvalid' = 1) =>
            /\ call.kind \in { "read", "write" }
            /\ call.stage = 0
            /\ call' = [call EXCEPT !.stage = 1]
            /\ reqaddr' = call.address
            /\ reqwrite' = (IF call.kind = "write" THEN 1 ELSE 0)
            /\ reqstrobe' = (IF call.kind = "write" /\ call.strobe # NoStrobe
                             THEN call.strobe ELSE default_strobe(top))
      /\ (call.kind # "none" /\ call'.kind = "none") =>
            /\ call.stage >= 1
            /\ reqvalid' = 0
      /\ (call.kind = "read" /\ call'.kind = "none") =>
            /\ call.stage = 2
            /\ reqvalid = 0
            /\ (rspvalid = 1 \/ rsperror = 1)
            /\ hist' = Append(hist, [kind |-> "read", address |-> call.address,
                                      value |-> << >>, strobe |-> NoStrobe, ret |-> rspdata])
    ]_vars

\* a read and a write have returned
C22_Witness ==
  /\ call.kind = "none"
  /\ \E i, j \in 1..Len(hist) : hist[i].kind = "read" /\ hist[j].kind = "write"
  /\ reqvalid = 0

\* C23: whenever no read or write of the master is in progress, after its
\* construction and after every read or write has returned, the request side
\* of the bus is idle: reqvalid = 0, reqwrite = 0, reqaddr = 0 and
\* reqstrobe = 0; rspready is 1 in every state of the master; a read never
\* changes reqdata.
C23_IdleRequest ==
  /\ []((rspready = 1 /\ call.kind = "none") =>
          (reqvalid = 0 /\ reqwrite = 0 /\ reqaddr = 0 /\ reqstrobe = 0))
  /\ [][ /\ (rspready = 1) => (rspready' = 1)
         /\ (call.kind = "read") => (reqdata' = reqdata) ]_vars

(***************************************************************************)
(* Properties of concurrent callers of the master                          *)
(***************************************************************************)
\* coroutines between the acquire and the release of their call
Holders == { i \in 1..Len(coros) : coros[i].at = "edge" }

\* C24: when several coroutines call read and write on one master, the lock
\* makes their operations mutually exclusive: at most one is between its
\* acquire and its release, the lock is held exactly then, and the address,
\* direction, strobe and data of an asserted request are those of that one
\* operation.
C24_MutualExclusion ==
  /\ Cardinality(Holders) <= 1
  /\ lock <=> (Holders # { })
  /\ (reqvalid = 1) =>
       \E i \in Holders :
         /\ coros[i].call.stage = 1
         /\ reqaddr = coros[i].call.address
         /\ reqwrite = (IF coros[i].call.kind = "write" THEN 1 ELSE 0)
         /\ reqstrobe = (IF coros[i].call.kind = "write" /\ coros[i].call.strobe # NoStrobe
                         THEN coros[i].call.strobe ELSE default_strobe(top))
         /\ (coros[i].call.kind = "write") => (reqdata = coros[i].call.value)

\* a write is asserted while another coroutine waits for the lock
C24_Witness ==
  /\ reqvalid = 1
  /\ reqwrite = 1
  /\ \E i \in 1..Len(coros) : coros[i].at = "lock"

(***************************************************************************)
(* Properties of a read that waits for its response                        *)
(***************************************************************************)
\* coroutine i is in a read, past the edge that asserted its request
ReadWaits(i) ==
  /\ i <= Len(coros)
  /\ coros[i].at = "edge"
  /\ coros[i].call.kind = "read"
  /\ coros[i].call.stage >= 1

\* C25: with a clock that keeps ticking, a read returns and gives up the lock
\* once the slave asserts rspvalid or rsperror; while the slave asserts
\* neither, the read does not return (there is no timeout and no retry), it
\* keeps the lock, and every call made after it stays blocked.
C25_ReadWaitsForResponse ==
  \A i \in 1..MaxCoros :
    /\ (ReadWaits(i) /\ (rspvalid = 1 \/ rsperror = 1))
          ~> (i <= Len(coros) /\ coros[i].at = "returned" /\ i \notin Holders)
    /\ []((ReadWaits(i) /\ [](rspvalid = 0 /\ rsperror = 0)) =>
            [](/\ ReadWaits(i)
               /\ lock
               /\ \A j \in 1..Len(coros) : (j > i) => (coros[j].at = "lock")))

\* a read waits without response while a later call waits for the lock
C25_Witness ==
  /\ ReadWaits(1)
  /\ coros[1].call.stage = 2
  /\ rspvalid = 0
  /\ rsperror = 0
  /\ Len(coros) = 2
  /\ coros[2].at = "lock"

(***************************************************************************)
(* Properties of the blocks of a message                                   *)
(***************************************************************************)
\* blocks of a message of L bytes
NBlocks(v, L) == IF v = "sha512" THEN ((L + 16) \div 128) + 1 ELSE ((L + 8) \div 64) + 1

\* blocks of the messages ms[i], ms[i + 1], ...
RECURSIVE NBlocksFrom(_, _, _)
NBlocksFrom(v, ms, i) ==
  IF i > Len(ms) THEN 0 ELSE NBlocks(v, Len(ms[i])) + NBlocksFrom(v, ms, i + 1)

\* C26: a message of L bytes is processed as floor((L + 8) / 64) + 1 blocks
\* by sha1 and sha256 and as floor((L + 16) / 128) + 1 blocks by sha512 (one
\* digest is recorded per block processed), and sha512.blocks has that many
\* entries after process.
C26_BlockCount ==
  (variant \in Variants /\ Len(processed) > 0) =>
    /\ Len(dbg_hash_values) = NBlocksFrom(variant, processed, 1)
    /\ (variant = "sha512") =>
         (Len(blocks) = NBlocks(variant, Len(processed[Len(processed)])))

\* the blocks bs[i], bs[i + 1], ... one after the other
RECURSIVE Concatenated(_, _)
Concatenated(bs, i) ==
  IF i > Len(bs) THEN << >> ELSE bs[i] \o Concatenated(bs, i + 1)

\* the lengths of the slices message[m : m + size] that process takes
SliceLengths(v, pre) ==
  { Min(m + block_size(v), Len(pre)) - m :
      m \in { k \in 0..Len(pre) : k < Len(pre) /\ k % block_size(v) = 0 } }

\* C27: every block that process passes to _process_block has the block size
\* (64 bytes for sha1 and sha256, 128 for sha512), and the blocks recorded in
\* sha512.blocks, concatenated in order, are the padded message.
C27_BlockSize ==
  (variant \in Variants /\ Len(processed) > 0) =>
    /\ \A i \in 1..Len(processed) :
         SliceLengths(variant, pre_processing(variant, processed[i]))
           = { block_size(variant) }
    /\ (variant = "sha512") =>
         /\ \A i \in 1..Len(blocks) : Len(blocks[i]) = 128
         /\ Concatenated(blocks, 1)
              = pre_processing(variant, processed[Len(processed)])

(***************************************************************************)
(* The block functions with a rotate masked to the word width              *)
(***************************************************************************)
\* x rotated right by n within 32 bits
masked_sha256_right_rotate(x, n) == Mask(Or(Shr(x, n), Shl(x, 32 - n)), 32)

\* x rotated right by n within 64 bits
masked_sha512_right_rotate(x, n) == Mask(Or(Shr(x, n), Shl(x, 64 - n)), 64)

RECURSIVE masked_sha256_extend(_)
masked_sha256_extend(w) ==
  IF Len(w) = 64 THEN w
  ELSE LET i == Len(w)
           s0 == Xor(Xor(masked_sha256_right_rotate(w[i - 15 + 1], 7),
                         masked_sha256_right_rotate(w[i - 15 + 1], 18)), Shr(w[i - 15 + 1], 3))
           s1 == Xor(Xor(masked_sha256_right_rotate(w[i - 2 + 1], 17),
                         masked_sha256_right_rotate(w[i - 2 + 1], 19)), Shr(w[i - 2 + 1], 10))
       IN masked_sha256_extend(Append(w, Mask(Add(Add(Add(w[i - 16 + 1], s0), w[i - 7 + 1]), s1), 32)))

masked_sha256_round(s, w) ==
  LET s1 == Xor(Xor(masked_sha256_right_rotate(s.e, 6), masked_sha256_right_rotate(s.e, 11)),
                masked_sha256_right_rotate(s.e, 25))
      chv == Xor(And(s.e, s.f), AndNot(s.e, s.g))
      s0 == Xor(Xor(masked_sha256_right_rotate(s.a, 2), masked_sha256_right_rotate(s.a, 13)),
                masked_sha256_right_rotate(s.a, 22))
      majv == Xor(Xor(And(s.a, s.b), And(s.a, s.c)), And(s.b, s.c))
      rotate(temp1, temp2) ==
        [i |-> s.i + 1,
         a |-> Mask(Add(temp1, temp2), 32), b |-> s.a, c |-> s.b, d |-> s.c,
         e |-> Mask(Add(s.d, temp1), 32), f |-> s.e, g |-> s.f, h |-> s.g]
  IN rotate(Mask(Add(Add(Add(Add(s.h, s1), chv), sha256_k[s.i + 1]), w[s.i + 1]), 32),
            Mask(Add(s0, majv), 32))

RECURSIVE masked_sha256_rounds(_, _)
masked_sha256_rounds(s, w) == IF s.i = 64 THEN s ELSE masked_sha256_rounds(masked_sha256_round(s, w), w)

masked_sha256_process_block(hh, block) ==
  LET w == masked_sha256_extend([i \in 1..16 |-> unpack_I(block, i - 1)] \o << >>)
      sum(s) ==
        << Mask(Add(hh[1], s.a), 32), Mask(Add(hh[2], s.b), 32), Mask(Add(hh[3], s.c), 32),
           Mask(Add(hh[4], s.d), 32), Mask(Add(hh[5], s.e), 32), Mask(Add(hh[6], s.f), 32),
           Mask(Add(hh[7], s.g), 32), Mask(Add(hh[8], s.h), 32) >>
  IN sum(masked_sha256_rounds([i |-> 0, a |-> hh[1], b |-> hh[2], c |-> hh[3], d |-> hh[4],
                        e |-> hh[5], f |-> hh[6], g |-> hh[7], h |-> hh[8]], w))

RECURSIVE masked_sha512_extend(_)
masked_sha512_extend(w) ==
  IF Len(w) = 80 THEN w
  ELSE LET i == Len(w)
           s0 == Xor(Xor(masked_sha512_right_rotate(w[i - 15 + 1], 1),
                         masked_sha512_right_rotate(w[i - 15 + 1], 8)), Shr(w[i - 15 + 1], 7))
           s1 == Xor(Xor(masked_sha512_right_rotate(w[i - 2 + 1], 19),
                         masked_sha512_right_rotate(w[i - 2 + 1], 61)), Shr(w[i - 2 + 1], 6))
       IN masked_sha512_extend(Append(w, Mask(Add(Add(Add(w[i - 16 + 1], s0), w[i - 7 + 1]), s1), 64)))

masked_sha512_round(s, w) ==
  LET s1 == Xor(Xor(masked_sha512_right_rotate(s.e, 14), masked_sha512_right_rotate(s.e, 18)),
                masked_sha512_right_rotate(s.e, 41))
      chv == Xor(And(s.e, s.f), AndNot(s.e, s.g))
      s0 == Xor(Xor(masked_sha512_right_rotate(s.a, 28), masked_sha512_right_rotate(s.a, 34)),
                masked_sha512_right_rotate(s.a, 39))
      majv == Xor(Xor(And(s.a, s.b), And(s.a, s.c)), And(s.b, s.c))
      rotate(a2, e2) ==
        [i |-> s.i + 1,
         a |-> a2, b |-> s.a, c |-> s.b, d |-> s.c,
         e |-> e2, f |-> s.e, g |-> s.f, h |-> s.g,
         rc |-> Append(s.rc, JoinSpaced(<< a2, s.a, s.b, s.c, e2, s.e, s.f, s.g >>, 1))]
      sums(temp1, temp2) == rotate(Mask(Add(temp1, temp2), 64), Mask(Add(s.d, temp1), 64))
  IN sums(Mask(Add(Add(Add(Add(s.h, s1), chv), sha512_k[s.i + 1]), w[s.i + 1]), 64),
          Mask(Add(s0, majv), 64))

RECURSIVE masked_sha512_rounds(_, _)
masked_sha512_rounds(s, w) == IF s.i = 80 THEN s ELSE masked_sha512_rounds(masked_sha512_round(s, w), w)

masked_sha512_process_block(hh, rc, block) ==
  LET w == masked_sha512_extend([i \in 1..16 |-> unpack_Q(block, i - 1)] \o << >>)
      sum(s) ==
        [h |-> << Mask(Add(hh[1], s.a), 64), Mask(Add(hh[2], s.b), 64), Mask(Add(hh[3], s.c), 64),
                  Mask(Add(hh[4], s.d), 64), Mask(Add(hh[5], s.e), 64), Mask(Add(hh[6], s.f), 64),
                  Mask(Add(hh[7], s.g), 64), Mask(Add(hh[8], s.h), 64) >>,
         rc |-> s.rc]
  IN sum(masked_sha512_rounds([i |-> 0, a |-> hh[1], b |-> hh[2], c |-> hh[3], d |-> hh[4],
                        e |-> hh[5], f |-> hh[6], g |-> hh[7], h |-> hh[8],
                        rc |-> Append(rc, JoinSpaced(hh, 1))], w))

\* _h after the blocks of bin, from hh, computed with the masked rotates
RECURSIVE masked_h(_, _, _)
masked_h(v, hh, bin) ==
  IF Len(bin) = 0 \/ Len(hh) = 0 THEN hh
  ELSE LET size == block_size(v)
           block == SubSeq(bin, 1, size)
       IN masked_h(v,
                   CASE v = "sha1" -> sha1_process_block(hh, block)
                     [] v = "sha256" -> masked_sha256_process_block(hh, block)
                     [] v = "sha512" -> masked_sha512_process_block(hh, << >>, block).h,
                   SubSeq(bin, size + 1, Len(bin)))

word_bits(v) == IF v = "sha512" THEN 64 ELSE 32

\* x is in [0, 2^w)
InRange(x, w) == Len(Norm(x)) * 16 <= w

\* C28: after every block of every message each word of the hash state is in
\* [0, 2^w) (w = 32 for sha1 and sha256, 64 for sha512) and every word
\* recorded in round_computations has its 16 hexadecimal digits, although
\* right_rotate is not masked; with a rotate masked to w bits the hash state
\* and the digest are the same.
C28_WordRange ==
  (variant \in Variants) =>
    /\ \A i \in 1..Len(h) : InRange(h[i], word_bits(variant))
    /\ \A i \in 1..Len(dbg_hash_values) :
         Len(dbg_hash_values[i])
           = (IF variant = "sha1" THEN 40
              ELSE IF variant = "sha256" THEN 64 ELSE digest_width \div 4)
    /\ \A i \in 1..Len(round_computations) : Len(round_computations[i]) = (8 * 16) + 7
    /\ LET mh == masked_h(variant, initial_h(variant, digest_width),
                          all_blocks(variant, processed, 1))
       IN /\ h = mh
          /\ (Len(processed) > 0) => (ret = digest(variant, mh, digest_width))

\* sha512 has processed two messages, of more than one block together
C28_Witness ==
  /\ variant = "sha512"
  /\ Len(processed) = 2
  /\ Len(round_computations) > 81
  /\ ret # "none"

(***************************************************************************)
(* Properties of the control operations of the Driver                      *)
(***************************************************************************)
StatusReads == { "read_hold", "read_valid" }

CtrlWrites == { "enable", "disable", "reset" }

\* what enable, disable and reset write
CtrlValue(kind) ==
  CASE kind = "enable" -> << 1 >>
    [] kind = "disable" -> << >>
    [] kind = "reset" -> << 2 >>

\* a step that is the core changing the status bits
CoreStep == \E hold, valid \in { 0, 1 } : CoreStatus(hold, valid)

\* C29: read_hold and read_valid each assert exactly one read request, to
\* address 0x000, and no write; read_hold returns the value read masked with
\* 0x8 (non-zero exactly when bit 3 is set), read_valid the value read masked
\* with 0x10 (non-zero exactly when bit 4 is set), and neither changes a
\* register; enable, disable and reset each assert exactly one write request,
\* with all strobe bits set, of 0x1, 0x0 and 0x2 to address 0x000.
C29_ControlOperations ==
  [][ /\ (dop.kind \in StatusReads /\ ~CoreStep) =>
           /\ ctrl' = ctrl /\ block_regs' = block_regs
           /\ reqwrite' = 0
           /\ (reqvalid' = 1) => (reqvalid = 0 /\ Len(txlog) = 0 /\ reqaddr' = CTRL_ADDR)
           /\ (dop'.kind = "none") =>
                LET e == hist'[Len(hist')]
                    bit == IF dop.kind = "read_hold" THEN 3 ELSE 4
                IN /\ Len(hist') = Len(hist) + 1
                   /\ e.kind = dop.kind
                   /\ Len(txlog') = 1 /\ n_rsp' = 1
                   /\ txlog'[1] = [address |-> CTRL_ADDR, write |-> 0, data |-> rspdata]
                   /\ e.ret = Norm(And(rspdata, << 2^bit >>))
                   /\ (e.ret # << >>) <=> (BitOf(Limb(rspdata, 1), bit) = 1)
      /\ (dop.kind \in CtrlWrites /\ ~CoreStep) =>
           /\ (reqvalid' = 1) =>
                /\ reqvalid = 0 /\ Len(txlog) = 0
                /\ reqaddr' = CTRL_ADDR /\ reqwrite' = 1
                /\ reqdata' = CtrlValue(dop.kind)
                /\ reqstrobe' = (2^(top.DataWidth \div 8)) - 1
           /\ (dop'.kind = "none") =>
                /\ Len(hist') = Len(hist) + 1
                /\ hist'[Len(hist')].kind = dop.kind
                /\ Len(txlog') = 1
                /\ txlog'[1] = [address |-> CTRL_ADDR, write |-> 1, data |-> CtrlValue(dop.kind)]
    ]_vars

\* read_valid has returned 0x10 and read_hold 0x8
C29_Witness ==
  /\ dop.kind = "none"
  /\ Len(hist) = 2
  /\ hist[1].kind = "read_valid" /\ hist[1].ret = << 16 >>
  /\ hist[2].kind = "read_hold" /\ hist[2].ret = << 8 >>

(***************************************************************************)
(* Properties of the register-driven scenarios                             *)
(***************************************************************************)
StatusPolls == { "read_hold", "read_valid" }

\* C30: in the register-driven scenarios the calls made for each block are
\* write_block, then enable, then status polls; read_digest is called only
\* after a read_valid call for the last block has returned non-zero; reset is
\* called only after read_digest.
C30_ScenarioOrder ==
  \A i \in 1..Len(oplog) :
    LET e == oplog[i]
    IN /\ (e.op = "write_block") =>
            (i = 1 \/ (oplog[i - 1].op \in StatusPolls /\ oplog[i - 1].cycle = e.cycle - 1))
       /\ (e.op = "enable") =>
            (i > 1 /\ oplog[i - 1].op = "write_block" /\ oplog[i - 1].cycle = e.cycle)
       /\ (e.op \in StatusPolls) =>
            (i > 1 /\ oplog[i - 1].op \in (StatusPolls \cup { "enable" })
                   /\ oplog[i - 1].cycle = e.cycle)
       /\ (e.op = "read_digest") =>
            \E j \in 1..(i - 1) :
              /\ oplog[j].op = "read_valid"
              /\ oplog[j].cycle = scen.nblocks - 1
              /\ oplog[j].ret # << >>
       /\ (e.op = "reset") => (i > 1 /\ oplog[i - 1].op = "read_digest")
====
